---------------------------- MODULE Spec2Model ----------------------------
(***************************************************************************)
(* State-machine model of the workflow orchestration code of the           *)
(* chapter08-A2A scripts.                                                  *)
(*                                                                         *)
(*   ReactAgent.py            agent <-> tools loop with an iteration cap   *)
(*   ReactAgentV2.py          agent <-> tools loop on structured tool calls*)
(*   mcp_travel_langgraph.py  nine-node travel-planning graph              *)
(*                                                                         *)
(* Every graph is executed by the graph engine the scripts call through    *)
(* workflow.compile() / app.invoke(): one superstep runs the current       *)
(* node's handler, merges the returned patch into the state (a key with a  *)
(* reducer, Annotated[list, operator.add], is concatenated; every other    *)
(* key is overwritten), evaluates the router of the node's conditional     *)
(* edges on the merged state and resolves the returned label through the   *)
(* edge map.  An exception raised by a handler leaves app.invoke; a label  *)
(* that is no key of the edge map raises KeyError out of app.invoke; a run *)
(* that has not reached END after the engine's recursion limit of          *)
(* supersteps is stopped with GraphRecursionError.                         *)
(*                                                                         *)
(* Text is modelled as a sequence of tokens (fragments of the text: a      *)
(* keyword, a word, a blank, a line break, a numeral, an operator).  A     *)
(* substring test is the test for a contiguous run of tokens, so that      *)
(* "Action: SearchEngine" contains "Action: Search"; str.split and         *)
(* str.strip act on tokens.                                                *)
(***************************************************************************)
EXTENDS Integers, Sequences, FiniteSets, TLC

VARIABLES
    r_state,      \* ReactAgent.py: the ReActState value (messages, iterations)
    r_node,       \* ReactAgent.py: node the engine runs next, or "END"
    r_status,     \* ReactAgent.py: "running" | "ended" | "crashed" | "step_limit"
    r_steps,      \* ReactAgent.py: supersteps executed by app.invoke
    r_agentCalls, \* history: invocations of agent_node
    r_toolCalls,  \* history: invocations of tool_node
    r_replies,    \* history: response.content of every llm.invoke that returned
    r_invoked,    \* history: per tool_node invocation, the tool function it called
    v_state,      \* ReactAgentV2.py: the AgentState value (messages)
    v_node,       \* ReactAgentV2.py: node the engine runs next, or "END"
    v_status,     \* ReactAgentV2.py: "running" | "ended" | "crashed" | "step_limit"
    v_steps,      \* ReactAgentV2.py: supersteps executed by app.invoke
    v_agentCalls, \* history: invocations of agent_node
    v_toolCalls,  \* history: invocations of the ToolNode
    t_state,      \* mcp_travel_langgraph.py: the EnhancedTravelState value
    t_node,       \* mcp_travel_langgraph.py: node the engine runs next, or "END"
    t_status,     \* mcp_travel_langgraph.py: "running" | "ended" | "raised"
    t_steps,      \* mcp_travel_langgraph.py: supersteps executed by app.ainvoke
    t_error,      \* exception that left app.ainvoke: "none" | "handler" | "KeyError"
                  \*   | "GraphRecursionError"
    t_report,     \* what main printed: "none" | "plan" | "error"
    t_visited,    \* history: the nodes whose handler was invoked, in order
    t_from,       \* history: node whose router ran last ("" before the first)
    t_label,      \* history: label that router returned ("" before the first)
    t_unroutable, \* history: Len(t_visited) when a router first returned a
                  \*   label that is no key of its node's edge map, else 0
    a_patch,      \* stub graph: per node, the current_step its handler returns
    a_state,      \* stub graph: the state value
    a_node,       \* stub graph: node the engine runs next, or "END"
    a_status,     \* stub graph: "running" | "ended" | "raised"
    a_visited,    \* history: the nodes whose handler was invoked, in order
    g_site,       \* fan-out: the call site that runs ("none" when none does)
    g_topic,      \* fan-out: the argument of the call (topic, destination)
    g_tasks,      \* fan-out: the submitted tasks, in the order of submission
    g_slot,       \* fan-out: per task, its progress and what it returned
    g_order,      \* history: the tasks in the order in which they finished
    g_outcome,    \* history: per task, what its blocking call did, if finished
    g_results,    \* fan-out: the list the call site collected from gather
    g_pc,         \* fan-out: "idle" | "fanout" | "joined" | "routed" | "done"
                  \*   | "raised"
    f_summary,    \* SummarizerAgent.ainvoke: the record it returned, if any
    f_prompt,     \* history: the prompt handed to the summarizer's llm, if any
    f_llmCalls,   \* history: calls of the summarizer's llm.invoke
    f_llm,        \* history: what the summarizer's llm.invoke did, if called
    f_return,     \* what research (or the direct summarizer call) returned
    f_stats,      \* research: the success statistics it printed, if any
    p_info,       \* plan_travel: weather_info, attractions, restaurants, hotels
    p_routeTask,  \* history: the route_task handed to the attraction agent
    p_routes,     \* plan_travel: routes, if planned
    p_prompt,     \* history: the prompt handed to planner_llm, if any
    p_plan,       \* plan_travel: final_plan, if generated
    n_state,      \* news graph: the NewsWorkflowState value
    n_node,       \* news graph: node the engine runs next, or "END"
    n_status,     \* news graph: "running" | "ended" | "raised"
    n_visited,    \* history: the nodes whose handler was invoked, in order
    n_failed,     \* history: the nodes whose handler body failed
    n_runs        \* main: the concurrent runs of workflow.run, one record each

r_vars == <<r_state, r_node, r_status, r_steps, r_agentCalls, r_toolCalls,
            r_replies, r_invoked>>

v_vars == <<v_state, v_node, v_status, v_steps, v_agentCalls, v_toolCalls>>

t_vars == <<t_state, t_node, t_status, t_steps, t_error, t_report, t_visited,
            t_from, t_label, t_unroutable>>

a_vars == <<a_patch, a_state, a_node, a_status, a_visited>>

g_vars == <<g_site, g_topic, g_tasks, g_slot, g_order, g_outcome, g_results,
            g_pc>>

f_vars == <<f_summary, f_prompt, f_llmCalls, f_llm, f_return, f_stats>>

p_vars == <<p_info, p_routeTask, p_routes, p_prompt, p_plan>>

n_vars == <<n_state, n_node, n_status, n_visited, n_failed, n_runs>>

vars == <<r_vars, v_vars, t_vars, a_vars, g_vars, f_vars, p_vars, n_vars>>

\* What a step of one program leaves alone: the other programs.
\* The fan-out programs: research team, travel planner, news graph.
teams_vars == <<g_vars, f_vars, p_vars, n_vars>>

r_others == <<v_vars, t_vars, a_vars, teams_vars>>
v_others == <<r_vars, t_vars, a_vars, teams_vars>>
t_others == <<r_vars, v_vars, a_vars, teams_vars>>
a_others == <<r_vars, v_vars, t_vars, teams_vars>>
g_others == <<r_vars, v_vars, t_vars, a_vars>>

END == "END"

(***************************************************************************)
(* Generic sequence helpers.                                               *)
(***************************************************************************)
Last(s) == s[Len(s)]

Contains(s, t) == \E i \in 1..Len(s) : s[i] = t

\* Position of the last occurrence of t in s, 0 when there is none.
LastIndexOf(s, t) ==
    IF Contains(s, t) THEN CHOOSE i \in 1..Len(s) :
                               /\ s[i] = t
                               /\ \A j \in (i+1)..Len(s) : s[j] # t
                      ELSE 0

\* s.split(sep)[0]: what precedes the first sep; the whole text without one.
SplitFirst(s, sep) ==
    IF Contains(s, sep)
    THEN SubSeq(s, 1, (CHOOSE i \in 1..Len(s) :
                          s[i] = sep /\ \A j \in 1..(i-1) : s[j] # sep) - 1)
    ELSE s

\* Positions at which the text pat starts in the text s.
Occurrences(s, pat) ==
    {i \in 1..(Len(s) - Len(pat) + 1) : SubSeq(s, i, i + Len(pat) - 1) = pat}

\* pat in s: substring test.
ContainsText(s, pat) == Occurrences(s, pat) # {}

\* s.split(sep)[-1]: what follows the last sep; the whole text without one.
SplitLast(s, sep) ==
    IF ContainsText(s, sep)
    THEN LET i == CHOOSE i \in Occurrences(s, sep) :
                      \A j \in Occurrences(s, sep) : j <= i
         IN SubSeq(s, i + Len(sep), Len(s))
    ELSE s

Blank == " "
NewLine == "\n"
Whitespace == {Blank, NewLine}

\* text.strip(): leading and trailing whitespace removed.
RECURSIVE Strip(_)
Strip(s) ==
    IF s = <<>> THEN s
    ELSE IF s[1] \in Whitespace THEN Strip(Tail(s))
    ELSE IF Last(s) \in Whitespace THEN Strip(SubSeq(s, 1, Len(s) - 1))
    ELSE s

(***************************************************************************)
(* ReactAgent.py: the tools.                                               *)
(***************************************************************************)
\* search_tool: f"搜索结果: {query} 的相关信息..."
search_tool(query) == <<"SearchResult:">> \o query \o <<"RelatedInfo">>

\* Python's reading of the numerals that occur in the modelled expressions.
NumVal(t) == CASE t = "0" -> 0 [] t = "1" -> 1 [] t = "2" -> 2 [] t = "3" -> 3
                 [] t = "10" -> 10

Numerals == {"0", "1", "2", "3", "10"}
Operators == {"+", "*", "**"}

\* An expression Python can parse: numeral (operator numeral)*.
WellFormed(e) ==
    /\ Len(e) % 2 = 1
    /\ \A i \in 1..Len(e) : IF i % 2 = 1 THEN e[i] \in Numerals
                                         ELSE e[i] \in Operators

\* Mutant of Pow: the recursion stops one factor late.
RECURSIVE Pow_LateBase(_, _)
Pow_LateBase(a, b) == IF b = 0 THEN a ELSE a * Pow_LateBase(a, b - 1)

\* a ** b on naturals.
RECURSIVE Pow(_, _)
Pow(a, b) == IF b = 0 THEN 1 ELSE a * Pow(a, b - 1)

\* Value of a well-formed expression with Python's precedence:
\* ** binds tightest and to the right, then *, then +, both to the left.
RECURSIVE EvalPow(_)
EvalPow(e) ==
    IF Len(e) = 1 THEN NumVal(e[1])
    ELSE Pow(NumVal(e[1]), EvalPow(SubSeq(e, 3, Len(e))))

RECURSIVE EvalProd(_)
EvalProd(e) ==
    LET k == LastIndexOf(e, "*")
    IN IF k = 0 THEN EvalPow(e)
       ELSE EvalProd(SubSeq(e, 1, k - 1)) * EvalPow(SubSeq(e, k + 1, Len(e)))

RECURSIVE EvalSum(_)
EvalSum(e) ==
    LET k == LastIndexOf(e, "+")
    IN IF k = 0 THEN EvalProd(e)
       ELSE EvalSum(SubSeq(e, 1, k - 1)) + EvalProd(SubSeq(e, k + 1, Len(e)))

\* eval(expression): the value, or an exception (SyntaxError, NameError) for
\* a text that is no expression.  eval ignores surrounding whitespace.
Eval(expression) ==
    LET e == Strip(expression)
    IN IF WellFormed(e) THEN [raised |-> FALSE, value |-> EvalSum(e)]
       ELSE [raised |-> TRUE, value |-> 0]

\* calculator_tool: return eval(expression), nothing is caught.
calculator_tool(expression) == Eval(expression)


(***************************************************************************)
(* ReactAgent.py: what the reasoning capability may answer.                *)
(***************************************************************************)
FinalMarker == <<"Final Answer">>
ActPrefix == "Action: "
ActSearch == <<ActPrefix, "Search">>
ActCalculator == <<ActPrefix, "Calculator">>
ActInput == <<"Action Input:">>

Replies == {
    <<"Thought: ", "hm">>,
    <<"Thought: ", "hm", NewLine>> \o ActSearch \o <<NewLine>> \o ActInput
        \o <<Blank, "news">>,
    ActCalculator \o <<NewLine>> \o ActInput
        \o <<Blank, "2", "**", "2", "+", "10">>,
    ActCalculator \o <<NewLine>> \o ActInput \o <<Blank, "2", "**">>,
    ActSearch \o <<NewLine>> \o ActInput \o <<Blank, "news", NewLine>>
        \o ActCalculator \o <<NewLine>> \o ActInput \o <<Blank, "2", "*", "10">>,
    <<ActPrefix, "Weather", NewLine>> \o ActInput \o <<Blank, "news">>,
    <<ActPrefix, "Search", "Engine", NewLine>> \o ActInput \o <<Blank, "news">>,
    FinalMarker \o <<": ", "14">>,
    FinalMarker \o <<": ", "14", NewLine>> \o ActCalculator \o <<NewLine>>
        \o ActInput \o <<Blank, "2", "+", "2">> }

\* llm.invoke either returns a response or raises (transport, credentials).
LLMRaises == [raised |-> TRUE, content |-> <<>>]
LLMOutcomes == {[raised |-> FALSE, content |-> c] : c \in Replies} \cup {LLMRaises}

UserQuestion == <<"search", "news", "and", "compute", "2", "**", "2", "+", "10">>

(***************************************************************************)
(* ReactAgent.py: state merge, nodes, router, edges.                       *)
(***************************************************************************)
\* Mutant of ReActMerge: messages has no reducer, the patch overwrites it.
ReActMerge_Overwrite(state, patch) ==
    [k \in DOMAIN state |-> IF k \in DOMAIN patch THEN patch[k] ELSE state[k]]

\* ReActState: messages is Annotated[list, operator.add], iterations is plain.
ReActMerge(state, patch) ==
    [k \in DOMAIN state |->
        IF k \in DOMAIN patch
        THEN IF k = "messages" THEN state[k] \o patch[k] ELSE patch[k]
        ELSE state[k]]

\* Mutant of agent_node: the counter is returned as it was.
agent_node_KeepsCount(state, content) ==
    [messages   |-> << [role |-> "assistant", content |-> content] >>,
     iterations |-> state.iterations]

\* Mutant of agent_node: the whole response object is logged, not its content.
agent_node_WholeResponse(state, content) ==
    [messages   |-> << [role |-> "assistant",
                        content |-> <<"content=">> \o content] >>,
     iterations |-> state.iterations + 1]

\* agent_node, given the content of the response llm.invoke returned.
agent_node(state, content) ==
    [messages   |-> << [role |-> "assistant", content |-> content] >>,
     iterations |-> state.iterations + 1]

Unrecognised == <<"UnrecognisedTool">>
NoTool == "none"

\* The tool function tool_node calls for the last message, and its argument.
ToolChoice(state) ==
    LET last_message == Last(state.messages).content
        action_input == Strip(SplitLast(last_message, ActInput))
    IN IF ContainsText(last_message, ActSearch)
       THEN [tool |-> "Search", input |-> action_input]
       ELSE IF ContainsText(last_message, ActCalculator)
       THEN [tool |-> "Calculator", input |-> action_input]
       ELSE [tool |-> NoTool, input |-> <<>>]

\* tool_node: raised when the tool function raised, else the returned patch.
tool_node(state) ==
    LET c == ToolChoice(state)
        calc == calculator_tool(c.input)
        raised == c.tool = "Calculator" /\ calc.raised
        result == IF c.tool = "Search" THEN search_tool(c.input)
                  ELSE IF c.tool = "Calculator" THEN <<ToString(calc.value)>>
                  ELSE Unrecognised
    IN [raised |-> raised,
        patch  |-> [messages |-> << [role    |-> "tool",
                                     content |-> <<"Observation:">> \o result] >>]]

IterationCap == 5

\* Mutant of should_continue: the cap stops the run one step late.
should_continue_CapLate(state) ==
    LET last_message == Last(state.messages).content
    IN IF ContainsText(last_message, FinalMarker) THEN "end"
       ELSE IF state.iterations > IterationCap THEN "end"
       ELSE "continue"

\* Mutant of should_continue: the iteration cap is not consulted.
should_continue_NoCap(state) ==
    LET last_message == Last(state.messages).content
    IN IF ContainsText(last_message, FinalMarker) THEN "end" ELSE "continue"

\* Mutant of should_continue: an Action directive is honoured before the marker.
should_continue_ActionFirst(state) ==
    LET last_message == Last(state.messages).content
    IN IF ContainsText(last_message, ActSearch) \/ ContainsText(last_message, ActCalculator)
       THEN IF state.iterations >= IterationCap THEN "end" ELSE "continue"
       ELSE IF ContainsText(last_message, FinalMarker) THEN "end"
       ELSE IF state.iterations >= IterationCap THEN "end"
       ELSE "continue"

should_continue(state) ==
    LET last_message == Last(state.messages).content
    IN IF ContainsText(last_message, FinalMarker) THEN "end"
       ELSE IF state.iterations >= IterationCap THEN "end"
       ELSE "continue"

\* add_conditional_edges("agent", should_continue, {...})
ReactAgentEdges == [continue |-> "tools", end |-> END]

\* Mutant of ReactToolsEdge: the tools node leads back to itself.
ReactToolsEdge_SelfLoop == "tools"

\* add_edge("tools", "agent")
ReactToolsEdge == "agent"

\* Supersteps app.invoke runs before it stops the run with GraphRecursionError
\* (no recursion_limit is passed, so the engine's default applies).
RecursionLimit == 25

\* Mutant of OutOfSteps: the engine never stops a run for its length.
OutOfSteps_Never(steps) == FALSE

\* app.invoke: the run has used up its supersteps.
OutOfSteps(steps) == steps >= RecursionLimit

(***************************************************************************)
(* ReactAgent.py: the run, one action per superstep.                       *)
(***************************************************************************)
ReactInit ==
    /\ r_state = [messages   |-> << [role |-> "user", content |-> UserQuestion] >>,
                  iterations |-> 0]
    /\ r_node = "agent"
    /\ r_status = "running"
    /\ r_steps = 0
    /\ r_agentCalls = 0
    /\ r_toolCalls = 0
    /\ r_replies = <<>>
    /\ r_invoked = <<>>

\* Superstep on node agent: agent_node, merge, should_continue, edge map.
ReactAgentStep(outcome) ==
    /\ r_status = "running"
    /\ r_node = "agent"
    /\ UNCHANGED r_others
    /\ IF OutOfSteps(r_steps)
       THEN /\ r_status' = "step_limit"
            /\ UNCHANGED <<r_state, r_node, r_steps, r_agentCalls, r_toolCalls,
                           r_replies, r_invoked>>
       ELSE /\ r_steps' = r_steps + 1
            /\ r_agentCalls' = r_agentCalls + 1
            /\ UNCHANGED <<r_toolCalls, r_invoked>>
            /\ IF outcome.raised
               THEN /\ r_status' = "crashed"
                    /\ UNCHANGED <<r_state, r_node, r_replies>>
               ELSE LET merged == ReActMerge(r_state,
                                             agent_node(r_state, outcome.content))
                        label  == should_continue(merged)
                        target == ReactAgentEdges[label]
                    IN /\ r_state' = merged
                       /\ r_replies' = Append(r_replies, outcome.content)
                       /\ r_node' = target
                       /\ r_status' = IF target = END THEN "ended" ELSE "running"

\* Superstep on node tools: tool_node, merge, fixed edge back to agent.
ReactToolsStep ==
    /\ r_status = "running"
    /\ r_node = "tools"
    /\ UNCHANGED r_others
    /\ IF OutOfSteps(r_steps)
       THEN /\ r_status' = "step_limit"
            /\ UNCHANGED <<r_state, r_node, r_steps, r_agentCalls, r_toolCalls,
                           r_replies, r_invoked>>
       ELSE /\ r_steps' = r_steps + 1
            /\ r_toolCalls' = r_toolCalls + 1
            /\ r_invoked' = Append(r_invoked, ToolChoice(r_state))
            /\ UNCHANGED <<r_agentCalls, r_replies>>
            /\ LET out == tool_node(r_state)
               IN IF out.raised
                  THEN /\ r_status' = "crashed"
                       /\ UNCHANGED <<r_state, r_node>>
                  ELSE /\ r_state' = ReActMerge(r_state, out.patch)
                       /\ r_node' = ReactToolsEdge
                       /\ r_status' = "running"

ReactNext ==
    \/ \E outcome \in LLMOutcomes : ReactAgentStep(outcome)
    \/ ReactToolsStep

(***************************************************************************)
(* ReactAgentV2.py: tools, nodes, router, edges.                           *)
(***************************************************************************)
\* search_tool ignores its query.
v2_search_tool(query) == <<"SearchResult:", "BYD", "320">>

\* calculator_tool: eval inside try/except, both outcomes are texts.
v2_calculator_tool(expression) ==
    LET r == Eval(expression)
    IN IF r.raised THEN <<"CalcError">>
       ELSE <<"Result:">> \o expression \o <<"=", ToString(r.value)>>

V2ToolNames == {"search_tool", "calculator_tool"}

\* What llm_with_tools.invoke may return: an AIMessage with its tool calls.
V2Replies == {
    [type |-> "ai", content |-> <<"done">>, tool_calls |-> <<>>],
    [type |-> "ai", content |-> <<>>,
     tool_calls |-> << [name |-> "search_tool", args |-> <<"news">>] >>],
    [type |-> "ai", content |-> <<"computing">>,
     tool_calls |-> << [name |-> "calculator_tool",
                        args |-> <<"2", "**", "2", "+", "10">>],
                       [name |-> "calculator_tool", args |-> <<"2", "**">>] >>] }

V2LLMRaises == [raised |-> TRUE, message |-> [type |-> "none"]]
V2LLMOutcomes ==
    {[raised |-> FALSE, message |-> m] : m \in V2Replies} \cup {V2LLMRaises}

\* AgentState: messages is Annotated[list, operator.add], the only key.
AgentStateMerge(state, patch) == [messages |-> state.messages \o patch.messages]

\* agent_node, given the message llm_with_tools.invoke returned.
v2_agent_node(state, response) == [messages |-> <<response>>]

\* The ToolMessage the ToolNode produces for one tool call.
V2ToolMessage(call) ==
    [type |-> "tool", tool_calls |-> <<>>,
     content |-> IF call.name = "search_tool" THEN v2_search_tool(call.args)
                 ELSE IF call.name = "calculator_tool"
                 THEN v2_calculator_tool(call.args)
                 ELSE <<"Error:", call.name, "is not a valid tool">>]

\* ToolNode(tools): one ToolMessage per tool call of the last message.
V2ToolNode(state) ==
    LET calls == Last(state.messages).tool_calls
    IN [messages |-> [i \in 1..Len(calls) |-> V2ToolMessage(calls[i])]]

\* Mutant of should_continue: a reply with a text ends the run.
v2_should_continue_TextEnds(state) ==
    LET last_message == Last(state.messages)
    IN IF last_message.content # <<>> THEN "end"
       ELSE IF last_message.tool_calls # <<>> THEN "tools" ELSE "end"

v2_should_continue(state) ==
    LET last_message == Last(state.messages)
    IN IF last_message.tool_calls # <<>> THEN "tools" ELSE "end"

\* add_conditional_edges("agent", should_continue, {...})
V2AgentEdges == [tools |-> "tools", end |-> END]

\* add_edge("tools", "agent")
V2ToolsEdge == "agent"

(***************************************************************************)
(* ReactAgentV2.py: the run, one action per superstep.                     *)
(***************************************************************************)
V2Init ==
    /\ v_state = [messages |-> << [type |-> "human", tool_calls |-> <<>>,
                                   content |-> UserQuestion] >>]
    /\ v_node = "agent"
    /\ v_status = "running"
    /\ v_steps = 0
    /\ v_agentCalls = 0
    /\ v_toolCalls = 0

V2AgentStep(outcome) ==
    /\ v_status = "running"
    /\ v_node = "agent"
    /\ UNCHANGED v_others
    /\ IF OutOfSteps(v_steps)
       THEN /\ v_status' = "step_limit"
            /\ UNCHANGED <<v_state, v_node, v_steps, v_agentCalls, v_toolCalls>>
       ELSE /\ v_steps' = v_steps + 1
            /\ v_agentCalls' = v_agentCalls + 1
            /\ UNCHANGED v_toolCalls
            /\ IF outcome.raised
               THEN /\ v_status' = "crashed"
                    /\ UNCHANGED <<v_state, v_node>>
               ELSE LET merged == AgentStateMerge(v_state,
                                      v2_agent_node(v_state, outcome.message))
                        target == V2AgentEdges[v2_should_continue(merged)]
                    IN /\ v_state' = merged
                       /\ v_node' = target
                       /\ v_status' = IF target = END THEN "ended" ELSE "running"

V2ToolsStep ==
    /\ v_status = "running"
    /\ v_node = "tools"
    /\ UNCHANGED v_others
    /\ IF OutOfSteps(v_steps)
       THEN /\ v_status' = "step_limit"
            /\ UNCHANGED <<v_state, v_node, v_steps, v_agentCalls, v_toolCalls>>
       ELSE /\ v_steps' = v_steps + 1
            /\ v_toolCalls' = v_toolCalls + 1
            /\ v_state' = AgentStateMerge(v_state, V2ToolNode(v_state))
            /\ v_node' = V2ToolsEdge
            /\ UNCHANGED <<v_status, v_agentCalls>>

V2Next ==
    \/ \E outcome \in V2LLMOutcomes : V2AgentStep(outcome)
    \/ V2ToolsStep

(***************************************************************************)
(* mcp_travel_langgraph.py: inputs and external collaborators.             *)
(***************************************************************************)
\* Arguments of build_and_run_workflow; main passes the first of each.
Destinations == {"Hangzhou", "Beijing"}
Durations == {<<"3", "days", "2", "nights">>, <<"weekend">>}
Budgets == {<<"2000", "per", "person">>, <<"economy">>}
PreferenceLists == {<<"nature", "food">>, <<"history">>, <<>>}
TravelTypes == {"independent"}

\* What a call of an external collaborator may give a handler: one of two
\* good answers (a model response, a tool's JSON text), or a failure (the
\* model call raises, the tool returns its failure text, which is no JSON).
ExtOutcomes == {"ok", "alt", "fail"}

\* int(state['duration'].split('天')[0]): ValueError unless it is a numeral.
ParseDays(duration) ==
    LET head == SplitFirst(duration, "days")
    IN IF Len(head) = 1 /\ head[1] \in Numerals
       THEN [raised |-> FALSE, value |-> NumVal(head[1])]
       ELSE [raised |-> TRUE, value |-> 0]

\* json.loads(result) if result else default, on a tool's answer.
LoadJson(ext, what) ==
    IF ext = "fail" THEN [raised |-> TRUE, value |-> <<>>]
    ELSE [raised |-> FALSE, value |-> <<[kind |-> what, answer |-> ext]>>]

(***************************************************************************)
(* mcp_travel_langgraph.py: the node handlers.  Each returns {**state,...},*)
(* so the value it returns is the whole next state; raised tells that the  *)
(* handler raised instead.                                                 *)
(***************************************************************************)
collect_requirements(state, ext) ==
    [raised |-> ext = "fail",
     state  |-> [state EXCEPT !.current_step = "weather_check",
                              !.messages = <<"prompt", ext>>]]

check_weather(state, ext) ==
    LET weather_data == LoadJson(ext, "weather")
    IN [raised |-> weather_data.raised,
        state  |-> [state EXCEPT !.weather_info = weather_data.value,
                                 !.current_step = "find_attractions"]]

find_attractions(state, ext) ==
    LET attractions == LoadJson(ext, "poi")
    IN [raised |-> attractions.raised,
        state  |-> [state EXCEPT !.attractions = attractions.value,
                                 !.current_step = "find_restaurants"]]

find_restaurants(state, ext) ==
    LET restaurants == LoadJson(ext, "restaurant")
    IN [raised |-> restaurants.raised,
        state  |-> [state EXCEPT !.restaurants = restaurants.value,
                                 !.current_step = "find_hotels"]]

find_hotels(state, ext) ==
    LET hotels == LoadJson(ext, "hotel")
    IN [raised |-> hotels.raised,
        state  |-> [state EXCEPT !.hotels = hotels.value,
                                 !.current_step = "create_schedule"]]

create_schedule(state, ext) ==
    [raised |-> ParseDays(state.duration).raised \/ ext = "fail",
     state  |-> [state EXCEPT !.daily_schedule = <<>>,
                              !.current_step = "calculate_budget"]]

calculate_budget(state, ext) ==
    LET days == ParseDays(state.duration)
    IN [raised |-> days.raised,
        state  |-> [state EXCEPT
                      !.budget_breakdown =
                          <<[transport |-> 500,
                             lodging   |-> 200 * (days.value - 1),
                             food      |-> 150 * days.value,
                             tickets   |-> 300,
                             other     |-> 200,
                             total     |-> 500 + 200 * (days.value - 1)
                                           + 150 * days.value + 300 + 200]>>,
                      !.current_step = "generate_plan"]]

generate_final_plan(state, ext) ==
    [raised |-> ext = "fail",
     state  |-> [state EXCEPT !.final_plan = <<"plan", ext>>,
                              !.current_step = "review"]]

review_plan(state, ext) ==
    [raised |-> FALSE,
     state  |-> [state EXCEPT !.current_step = "end",
                              !.revision_needed = FALSE]]

\* workflow.add_node(name, handler)
TravelNodes == {"collect", "weather", "attractions", "restaurants", "hotels",
                "schedule", "budget", "generate", "review"}

TravelHandler(node, state, ext) ==
    CASE node = "collect"     -> collect_requirements(state, ext)
      [] node = "weather"     -> check_weather(state, ext)
      [] node = "attractions" -> find_attractions(state, ext)
      [] node = "restaurants" -> find_restaurants(state, ext)
      [] node = "hotels"      -> find_hotels(state, ext)
      [] node = "schedule"    -> create_schedule(state, ext)
      [] node = "budget"      -> calculate_budget(state, ext)
      [] node = "generate"    -> generate_final_plan(state, ext)
      [] node = "review"      -> review_plan(state, ext)

(***************************************************************************)
(* mcp_travel_langgraph.py: router and edges.                              *)
(***************************************************************************)
step_map == [collect          |-> "weather",
             weather_check    |-> "attractions",
             find_attractions |-> "restaurants",
             find_restaurants |-> "hotels",
             find_hotels      |-> "schedule",
             create_schedule  |-> "budget",
             calculate_budget |-> "generate",
             generate_plan    |-> "review",
             review           |-> "end",
             end              |-> "end"]

route_next(state) ==
    LET current == state.current_step
        next_step == IF current \in DOMAIN step_map THEN step_map[current]
                     ELSE "end"
    IN IF next_step = "end" THEN "end" ELSE next_step

\* add_conditional_edges(node, route_next, {...}), node by node.
TravelEdges ==
    [collect     |-> [weather     |-> "weather",     end |-> END],
     weather     |-> [attractions |-> "attractions", end |-> END],
     attractions |-> [restaurants |-> "restaurants", end |-> END],
     restaurants |-> [hotels      |-> "hotels",      end |-> END],
     hotels      |-> [schedule    |-> "schedule",    end |-> END],
     schedule    |-> [budget      |-> "budget",      end |-> END],
     budget      |-> [generate    |-> "generate",    end |-> END],
     generate    |-> [review      |-> "review",      end |-> END],
     review      |-> [end |-> END]]

\* The engine resolves a router's label through the node's edge map; a label
\* that is no key of the map raises KeyError.
ResolveEdge(edges, label) ==
    [mapped |-> label \in DOMAIN edges,
     target |-> IF label \in DOMAIN edges THEN edges[label] ELSE END]

(***************************************************************************)
(* mcp_travel_langgraph.py: build_and_run_workflow and main.               *)
(***************************************************************************)
initial_state(destination, duration, budget, preferences, travel_type) ==
    [destination      |-> destination,
     duration         |-> duration,
     budget           |-> budget,
     preferences      |-> preferences,
     travel_type      |-> travel_type,
     weather_info     |-> <<>>,
     attractions      |-> <<>>,
     restaurants      |-> <<>>,
     hotels           |-> <<>>,
     daily_schedule   |-> <<>>,
     budget_breakdown |-> <<>>,
     final_plan       |-> <<>>,
     messages         |-> <<>>,
     current_step     |-> "collect",
     user_feedback    |-> <<>>,
     revision_needed  |-> FALSE]

\* set_entry_point("collect")
TravelEntry == "collect"

TravelInit ==
    /\ \E destination \in Destinations, duration \in Durations,
          budget \in Budgets, preferences \in PreferenceLists,
          travel_type \in TravelTypes :
           t_state = initial_state(destination, duration, budget, preferences,
                                   travel_type)
    /\ t_node = TravelEntry
    /\ t_status = "running"
    /\ t_steps = 0
    /\ t_error = "none"
    /\ t_report = "none"
    /\ t_visited = <<>>
    /\ t_from = ""
    /\ t_label = ""
    /\ t_unroutable = 0

\* The travel run stays as constructed.
TravelIdle ==
    /\ t_state = initial_state("Hangzhou", <<"3", "days", "2", "nights">>,
                               <<"2000", "per", "person">>,
                               <<"nature", "food">>, "independent")
    /\ t_node = TravelEntry
    /\ t_status = "running"
    /\ t_steps = 0
    /\ t_error = "none"
    /\ t_report = "none"
    /\ t_visited = <<>>
    /\ t_from = ""
    /\ t_label = ""
    /\ t_unroutable = 0

\* One superstep of app.ainvoke: the handler of the current node, the merge
\* (no key has a reducer: the returned state replaces the state), route_next
\* and the node's edge map.
TravelStep(ext) ==
    /\ t_status = "running"
    /\ t_node \in TravelNodes
    /\ UNCHANGED t_others
    /\ UNCHANGED t_report
    /\ IF OutOfSteps(t_steps)
       THEN /\ t_status' = "raised"
            /\ t_error' = "GraphRecursionError"
            /\ UNCHANGED <<t_state, t_node, t_steps, t_visited, t_from, t_label,
                           t_unroutable>>
       ELSE LET out == TravelHandler(t_node, t_state, ext)
                label == route_next(out.state)
                edge == ResolveEdge(TravelEdges[t_node], label)
            IN /\ t_steps' = t_steps + 1
               /\ t_visited' = Append(t_visited, t_node)
               /\ IF out.raised
                  THEN /\ t_status' = "raised"
                       /\ t_error' = "handler"
                       /\ UNCHANGED <<t_state, t_node, t_from, t_label,
                                      t_unroutable>>
                  ELSE /\ t_state' = out.state
                       /\ t_from' = t_node
                       /\ t_label' = label
                       /\ t_unroutable' =
                              IF t_unroutable = 0
                                 /\ label \notin DOMAIN TravelEdges[t_node]
                              THEN Len(t_visited) + 1 ELSE t_unroutable
                       /\ IF edge.mapped
                          THEN /\ t_node' = edge.target
                               /\ t_error' = "none"
                               /\ t_status' = IF edge.target = END THEN "ended"
                                              ELSE "running"
                          ELSE /\ t_status' = "raised"
                               /\ t_error' = "KeyError"
                               /\ UNCHANGED t_node

\* Mutant of TravelReport: main prints the plan whatever the run's outcome.
TravelReport_PrintsPlan ==
    /\ t_status \in {"ended", "raised"}
    /\ t_report = "none"
    /\ UNCHANGED t_others
    /\ t_report' = "plan"
    /\ UNCHANGED <<t_state, t_node, t_status, t_steps, t_error, t_visited,
                   t_from, t_label, t_unroutable>>

\* main: prints the final plan, or the error when build_and_run_workflow raised.
TravelReport ==
    /\ t_status \in {"ended", "raised"}
    /\ t_report = "none"
    /\ UNCHANGED t_others
    /\ t_report' = IF t_status = "ended" THEN "plan" ELSE "error"
    /\ UNCHANGED <<t_state, t_node, t_status, t_steps, t_error, t_visited,
                   t_from, t_label, t_unroutable>>

TravelNext ==
    \/ \E ext \in ExtOutcomes : TravelStep(ext)
    \/ TravelReport

(***************************************************************************)
(* mcp_travel_langgraph.py: route_next and the edge maps under handlers    *)
(* that do nothing but return a patch of current_step (stub handlers).     *)
(* The graph is the graph of the script cut down to the nodes collect and  *)
(* weather; which current_step each stub returns is an input of the run.   *)
(***************************************************************************)
StubNodes == {"collect", "weather"}

\* The values current_step takes in the script: keys and values of step_map.
StubSteps == DOMAIN step_map \cup {step_map[k] : k \in DOMAIN step_map}

\* The edge maps of the script, without the edges that leave the stub nodes.
StubEdges ==
    [n \in StubNodes |->
        [l \in {k \in DOMAIN TravelEdges[n] :
                    TravelEdges[n][k] \in StubNodes \cup {END}}
            |-> TravelEdges[n][l]]]

\* A stub handler: {**state, "current_step": step}.
StubHandler(state, step) == [state EXCEPT !.current_step = step]

StubInit ==
    /\ a_patch \in [StubNodes -> StubSteps]
    /\ a_state = initial_state("Hangzhou", <<"3", "days", "2", "nights">>,
                               <<"2000", "per", "person">>,
                               <<"nature", "food">>, "independent")
    /\ a_node = TravelEntry
    /\ a_status = "running"
    /\ a_visited = <<>>

\* The stub run stays as constructed.
StubIdle ==
    /\ a_patch = [n \in StubNodes |-> "end"]
    /\ a_state = initial_state("Hangzhou", <<"3", "days", "2", "nights">>,
                               <<"2000", "per", "person">>,
                               <<"nature", "food">>, "independent")
    /\ a_node = TravelEntry
    /\ a_status = "running"
    /\ a_visited = <<>>

\* One superstep: the stub handler, the merge, route_next, the edge map.
StubStep ==
    /\ a_status = "running"
    /\ a_node \in StubNodes
    /\ UNCHANGED a_others
    /\ UNCHANGED a_patch
    /\ LET merged == StubHandler(a_state, a_patch[a_node])
           edge == ResolveEdge(StubEdges[a_node], route_next(merged))
       IN /\ a_state' = merged
          /\ a_visited' = Append(a_visited, a_node)
          /\ IF edge.mapped
             THEN /\ a_node' = edge.target
                  /\ a_status' = IF edge.target = END THEN "ended" ELSE "running"
             ELSE /\ a_status' = "raised"
                  /\ UNCHANGED a_node

StubNext == StubStep

(***************************************************************************)
(* Fan-out with asyncio.gather: multi_agent_async.py (ResearchTeam),       *)
(* travel_planner.py (MCPTravelPlanner), multi_agent_langgraph.py          *)
(* (search_node).  A call site creates its coroutines in task order and    *)
(* hands them to gather at once; every coroutine runs its blocking call    *)
(* through asyncio.to_thread, on the event loop's default thread pool.     *)
(* Tasks start and finish in any order; gather returns, once every task    *)
(* has finished, the list of their results in the order of its arguments.  *)
(***************************************************************************)
\* asyncio.to_thread: workers of the default thread pool, min(32, cpus + 4),
\* for the smallest machine.
ThreadPoolWorkers == 5

Created == [st |-> "created", raised |-> FALSE, result |-> <<>>]
Running == [st |-> "running", raised |-> FALSE, result |-> <<>>]

\* A finished task: the value its coroutine returned, or the exception it raised.
Done(raised, value) == [st |-> "done", raised |-> raised, result |-> <<value>>]

RunningTasks == {i \in 1..Len(g_slot) : g_slot[i].st = "running"}
FinishedTasks == {i \in 1..Len(g_slot) : g_slot[i].st = "done"}

\* datetime.now() as a logical clock: the number of tasks that have finished.
Now == Len(g_order)

\* Mutant of gather: the results are listed in the order of completion.
gather_CompletionOrder(slots, order) ==
    [k \in 1..Len(order) |-> slots[order[k]]]

\* asyncio.gather(*tasks): the results in the order of the arguments.
gather(slots, order) == [i \in 1..Len(slots) |-> slots[i]]

\* A created task starts executing: its coroutine runs up to the to_thread
\* call and a worker of the pool takes the blocking call.
TaskStart(i) ==
    /\ g_pc = "fanout"
    /\ i \in 1..Len(g_slot)
    /\ g_slot[i].st = "created"
    /\ Cardinality(RunningTasks) < ThreadPoolWorkers
    /\ g_slot' = [g_slot EXCEPT ![i] = Running]
    /\ UNCHANGED <<g_site, g_topic, g_tasks, g_order, g_outcome, g_results, g_pc>>
    /\ UNCHANGED <<f_vars, p_vars, n_vars>>
    /\ UNCHANGED g_others

(***************************************************************************)
(* multi_agent_async.py: the agents.                                       *)
(***************************************************************************)
\* AgentExecutor "force" stop: the output once max_iterations (3) or
\* max_execution_time (60 s) is used up; executor.invoke returns it.
StoppedText == <<"Agent stopped due to iteration limit or time limit.">>

\* max_execution_time of the two executors, in seconds.
MaxExecutionTime == 60

\* executor.invoke in its thread: it returns an output or raises; ms is the
\* time the call took, in milliseconds.  The time budget is looked at between
\* two steps of the executor only: a call whose last step runs past it
\* returns that step's output, a call stopped by it returns StoppedText.
ExecOutcomes ==
    { [kind |-> "returns", text |-> <<"findings">>, ms |-> 1234],
      [kind |-> "returns", text |-> <<"findings">>,
       ms |-> MaxExecutionTime * 1000 + 1000],
      [kind |-> "returns", text |-> StoppedText,
       ms |-> MaxExecutionTime * 1000 + 1000],
      [kind |-> "raises", text |-> <<"ConnectionError">>, ms |-> 7] }

TaskFailedPrefix == <<"TaskFailed: ">>

\* ResearchAgent.ainvoke: try/except Exception around executor.invoke.
ResearchAgent_ainvoke(name, task, outcome, end_time) ==
    IF outcome.kind = "returns"
    THEN [agent |-> name, task |-> task, result |-> outcome.text,
          duration |-> outcome.ms, timestamp |-> end_time, success |-> TRUE]
    ELSE [agent |-> name, task |-> task,
          result |-> TaskFailedPrefix \o outcome.text,
          duration |-> outcome.ms, timestamp |-> end_time, success |-> FALSE]

\* Mutant of AnalystAgent.ainvoke: the failure record is flagged a success.
AnalystAgent_ainvoke_FailureAsSuccess(name, task, outcome, end_time) ==
    IF outcome.kind = "returns"
    THEN [agent |-> name, task |-> task, result |-> outcome.text,
          duration |-> outcome.ms, timestamp |-> end_time, success |-> TRUE]
    ELSE [agent |-> name, task |-> task,
          result |-> TaskFailedPrefix \o outcome.text,
          duration |-> outcome.ms, timestamp |-> end_time, success |-> TRUE]

\* AnalystAgent.ainvoke: try/except Exception around executor.invoke.
AnalystAgent_ainvoke(name, task, outcome, end_time) ==
    IF outcome.kind = "returns"
    THEN [agent |-> name, task |-> task, result |-> outcome.text,
          duration |-> outcome.ms, timestamp |-> end_time, success |-> TRUE]
    ELSE [agent |-> name, task |-> task,
          result |-> TaskFailedPrefix \o outcome.text,
          duration |-> outcome.ms, timestamp |-> end_time, success |-> FALSE]

\* f"{duration:.2f}" of a duration given in milliseconds.
Format2f(ms) ==
    LET cs == (ms + 5) \div 10
    IN <<ToString(cs \div 100), ".", ToString((cs % 100) \div 10),
         ToString(cs % 10)>>

\* r.get('success', False)
IsSuccessful(r) == "success" \in DOMAIN r /\ r.success

\* One block of combined_info.
SummaryBlock(r) ==
    <<"[", r["agent"], "]", NewLine, "Task: ">> \o r["task"]
        \o <<NewLine, "Result:", NewLine>> \o r["result"]
        \o <<NewLine, "Duration: ">> \o Format2f(r["duration"]) \o <<"s">>

\* "\n\n".join(blocks)
RECURSIVE JoinBlocks(_)
JoinBlocks(blocks) ==
    IF blocks = <<>> THEN <<>>
    ELSE IF Len(blocks) = 1 THEN blocks[1]
    ELSE blocks[1] \o <<NewLine, NewLine>> \o JoinBlocks(Tail(blocks))

SummaryTask == <<"merge all results">>
AllFailedText == <<"AllTasksFailed">>
SummaryFailedPrefix == <<"SummaryFailed: ">>

\* self.llm.invoke(prompt) in its thread: a response, or an exception.
SummaryLLMOutcomes ==
    { [kind |-> "returns", text |-> <<"report">>, ms |-> 2345],
      [kind |-> "raises", text |-> <<"RateLimitError">>, ms |-> 7] }

\* Mutant of SummarizerAgent.ainvoke: the results are not filtered.
SummarizerAgent_ainvoke_Unfiltered(name, results, llm, end_time) ==
    LET prompt == <<"Merge into a report:", NewLine>>
                      \o JoinBlocks([i \in 1..Len(results) |->
                                         SummaryBlock(results[i])])
                      \o <<NewLine, "Requirements">>
    IN [llm_calls |-> 1, prompt |-> <<prompt>>,
        value |-> IF llm.kind = "returns"
                  THEN [agent |-> name, task |-> SummaryTask,
                        result |-> llm.text, duration |-> llm.ms,
                        timestamp |-> end_time, success |-> TRUE]
                  ELSE [agent |-> name, task |-> SummaryTask,
                        result |-> SummaryFailedPrefix \o llm.text,
                        duration |-> llm.ms, timestamp |-> end_time,
                        success |-> FALSE]]

\* Mutant of SummarizerAgent.ainvoke: a failed synthesis is tried once more.
SummarizerAgent_ainvoke_Retries(name, results, llm, end_time) ==
    LET successful_results == SelectSeq(results, IsSuccessful)
        prompt == <<"Merge into a report:", NewLine>>
                      \o JoinBlocks([i \in 1..Len(successful_results) |->
                                         SummaryBlock(successful_results[i])])
                      \o <<NewLine, "Requirements">>
    IN IF successful_results = <<>>
       THEN [llm_calls |-> 0, prompt |-> <<>>,
             value |-> [agent |-> name, task |-> SummaryTask,
                        result |-> AllFailedText, duration |-> 0,
                        timestamp |-> end_time, success |-> FALSE]]
       ELSE [llm_calls |-> IF llm.kind = "returns" THEN 1 ELSE 2,
             prompt |-> <<prompt>>,
             value |-> IF llm.kind = "returns"
                       THEN [agent |-> name, task |-> SummaryTask,
                             result |-> llm.text, duration |-> llm.ms,
                             timestamp |-> end_time, success |-> TRUE]
                       ELSE [agent |-> name, task |-> SummaryTask,
                             result |-> SummaryFailedPrefix \o llm.text,
                             duration |-> llm.ms, timestamp |-> end_time,
                             success |-> FALSE]]

\* Mutant of SummarizerAgent.ainvoke: the synthesis is attempted on nothing.
SummarizerAgent_ainvoke_NoSentinel(name, results, llm, end_time) ==
    LET successful_results == SelectSeq(results, IsSuccessful)
        prompt == <<"Merge into a report:", NewLine>>
                      \o JoinBlocks([i \in 1..Len(successful_results) |->
                                         SummaryBlock(successful_results[i])])
                      \o <<NewLine, "Requirements">>
    IN [llm_calls |-> 1, prompt |-> <<prompt>>,
        value |-> IF llm.kind = "returns"
                  THEN [agent |-> name, task |-> SummaryTask,
                        result |-> llm.text, duration |-> llm.ms,
                        timestamp |-> end_time, success |-> TRUE]
                  ELSE [agent |-> name, task |-> SummaryTask,
                        result |-> SummaryFailedPrefix \o llm.text,
                        duration |-> llm.ms, timestamp |-> end_time,
                        success |-> FALSE]]

\* SummarizerAgent.ainvoke: the record it returns (value), the prompt it
\* handed to self.llm.invoke and the number of its self.llm.invoke calls.
SummarizerAgent_ainvoke(name, results, llm, end_time) ==
    LET successful_results == SelectSeq(results, IsSuccessful)
        prompt == <<"Merge into a report:", NewLine>>
                      \o JoinBlocks([i \in 1..Len(successful_results) |->
                                         SummaryBlock(successful_results[i])])
                      \o <<NewLine, "Requirements">>
    IN IF successful_results = <<>>
       THEN [llm_calls |-> 0, prompt |-> <<>>,
             value |-> [agent |-> name, task |-> SummaryTask,
                        result |-> AllFailedText, duration |-> 0,
                        timestamp |-> end_time, success |-> FALSE]]
       ELSE [llm_calls |-> 1, prompt |-> <<prompt>>,
             value |-> IF llm.kind = "returns"
                       THEN [agent |-> name, task |-> SummaryTask,
                             result |-> llm.text, duration |-> llm.ms,
                             timestamp |-> end_time, success |-> TRUE]
                       ELSE [agent |-> name, task |-> SummaryTask,
                             result |-> SummaryFailedPrefix \o llm.text,
                             duration |-> llm.ms, timestamp |-> end_time,
                             success |-> FALSE]]

(***************************************************************************)
(* multi_agent_async.py: ResearchTeam.research.                            *)
(***************************************************************************)
\* Research topics: main's test topic and one typed in interactively.
Topics == {"AI", "EV"}

\* search_tasks: the three coroutines, in the order of the list.
ResearchTasks(topic) ==
    << [agent |-> "Searcher-1", task |-> <<"latest news on", topic>>],
       [agent |-> "Searcher-2", task |-> <<"details of", topic>>],
       [agent |-> "Analyst",    task |-> <<"trends of", topic>>] >>

\* Mutant of processed_results: only the successful records are kept.
processed_results_SuccessOnly(search_results) ==
    SelectSeq([i \in 1..Len(search_results) |-> search_results[i].result[1]],
              IsSuccessful)

\* The loop over search_results: an exception becomes a failure record.
processed_results(search_results) ==
    [i \in 1..Len(search_results) |->
        IF search_results[i].raised
        THEN [agent |-> "Agent-" \o ToString(i), task |-> <<"search task">>,
              result |-> <<"Exception: ">> \o search_results[i].result[1].exception,
              duration |-> 0, timestamp |-> Now, success |-> FALSE]
        ELSE search_results[i].result[1]]

\* plan_travel has not got past its fan-out.
PlannerIdle ==
    /\ p_info = <<>>
    /\ p_routeTask = <<>>
    /\ p_routes = <<>>
    /\ p_prompt = <<>>
    /\ p_plan = <<>>

\* The news graph has not run a node.
NewsRunIdle ==
    /\ n_state = <<>>
    /\ n_node = "search"
    /\ n_status = "running"
    /\ n_visited = <<>>
    /\ n_failed = {}

\* Neither workflow.run nor main has been called.
NewsIdle ==
    /\ NewsRunIdle
    /\ n_runs = <<>>

ResearchInit ==
    /\ PlannerIdle
    /\ NewsIdle
    /\ g_site = "research"
    /\ g_topic \in Topics
    /\ g_tasks = ResearchTasks(g_topic)
    /\ g_slot = [i \in 1..3 |-> Created]
    /\ g_order = <<>>
    /\ g_outcome = [i \in 1..3 |-> <<>>]
    /\ g_results = <<>>
    /\ g_pc = "fanout"
    /\ f_summary = <<>>
    /\ f_prompt = <<>>
    /\ f_llmCalls = 0
    /\ f_llm = <<>>
    /\ f_return = <<>>
    /\ f_stats = <<>>

\* No fan-out program runs.
FanOutIdle ==
    /\ g_site = "none"
    /\ g_topic = "AI"
    /\ g_tasks = <<>>
    /\ g_slot = <<>>
    /\ g_order = <<>>
    /\ g_outcome = <<>>
    /\ g_results = <<>>
    /\ g_pc = "idle"
    /\ f_summary = <<>>
    /\ f_prompt = <<>>
    /\ f_llmCalls = 0
    /\ f_llm = <<>>
    /\ f_return = <<>>
    /\ f_stats = <<>>

TeamsIdle ==
    /\ PlannerIdle
    /\ NewsIdle
    /\ FanOutIdle

\* A task of the research team finishes: ainvoke returns its record.
ResearchTaskFinish(i, outcome) ==
    /\ g_site = "research"
    /\ g_pc = "fanout"
    /\ i \in 1..Len(g_slot)
    /\ g_slot[i].st = "running"
    /\ LET t == g_tasks[i]
           record == IF i = 3
                     THEN AnalystAgent_ainvoke(t.agent, t.task, outcome, Now + 1)
                     ELSE ResearchAgent_ainvoke(t.agent, t.task, outcome, Now + 1)
       IN g_slot' = [g_slot EXCEPT ![i] = Done(FALSE, record)]
    /\ g_order' = Append(g_order, i)
    /\ g_outcome' = [g_outcome EXCEPT ![i] = <<outcome>>]
    /\ UNCHANGED <<g_site, g_topic, g_tasks, g_results, g_pc>>
    /\ UNCHANGED <<f_vars, p_vars, n_vars>>
    /\ UNCHANGED g_others

\* await asyncio.gather(..., return_exceptions=True) returns, and the loop
\* that builds processed_results runs.
ResearchJoin ==
    /\ g_site = "research"
    /\ g_pc = "fanout"
    /\ FinishedTasks = 1..Len(g_slot)
    /\ g_results' = processed_results(gather(g_slot, g_order))
    /\ g_pc' = "joined"
    /\ UNCHANGED <<g_site, g_topic, g_tasks, g_slot, g_order, g_outcome>>
    /\ UNCHANGED <<f_vars, p_vars, n_vars>>
    /\ UNCHANGED g_others

\* Mutant of the statistics line: every task is counted a success.
SuccessStatistics_CountsAll(results) ==
    [succeeded |-> Len(results), total |-> Len(results)]

\* The numbers of the line "succeeded/total" that research prints:
\* sum(1 for r in processed_results if r.get('success', False)) and
\* len(processed_results).
SuccessStatistics(results) ==
    [succeeded |-> Len(SelectSeq(results, IsSuccessful)), total |-> Len(results)]

\* Mutant of AtSummarizerCall: the summarizer is started along with the tasks.
AtSummarizerCall_WithTasks(pc) == pc \in {"fanout", "joined"}

\* research is at its call of self.summarizer.ainvoke: the await of gather
\* and the loop over its results are behind it.
AtSummarizerCall(pc) == pc = "joined"

\* await self.summarizer.ainvoke(processed_results), and research returns.
\* A direct call of SummarizerAgent.ainvoke takes the same step.
Summarize(llm) ==
    /\ g_site \in {"research", "summarizer"}
    /\ AtSummarizerCall(g_pc)
    /\ LET out == SummarizerAgent_ainvoke("Summarizer", g_results, llm, Now + 1)
       IN /\ f_summary' = <<out.value>>
          /\ f_prompt' = out.prompt
          /\ f_llmCalls' = f_llmCalls + out.llm_calls
          /\ f_llm' = IF out.llm_calls > 0 THEN <<llm>> ELSE <<>>
          /\ f_return' = IF g_site = "research"
                         THEN << [topic          |-> g_topic,
                                  search_results |-> g_results,
                                  final_summary  |-> out.value,
                                  success        |-> IsSuccessful(out.value)] >>
                         ELSE <<out.value>>
    /\ f_stats' = IF g_site = "research"
                  THEN <<SuccessStatistics(g_results)>>
                  ELSE <<>>
    /\ g_pc' = "done"
    /\ UNCHANGED <<g_site, g_topic, g_tasks, g_slot, g_order, g_outcome,
                   g_results>>
    /\ UNCHANGED <<p_vars, n_vars>>
    /\ UNCHANGED g_others

ResearchNext ==
    \/ \E i \in 1..3 : TaskStart(i)
    \/ \E i \in 1..3, outcome \in ExecOutcomes : ResearchTaskFinish(i, outcome)
    \/ ResearchJoin
    \/ \E llm \in SummaryLLMOutcomes : Summarize(llm)

(***************************************************************************)
(* multi_agent_async.py: SummarizerAgent.ainvoke called on any result list.*)
(***************************************************************************)
MaxResults == 3

\* Records the agents of the team return.
ResultPool ==
    {ResearchAgent_ainvoke("Searcher-1", <<"latest news on", "AI">>, o, 1) :
         o \in ExecOutcomes}
    \cup {AnalystAgent_ainvoke("Analyst", <<"trends of", "AI">>, o, 1) :
         o \in {[kind |-> "returns", text |-> <<"figures">>, ms |-> 1234],
                [kind |-> "raises", text |-> <<"TransportError">>, ms |-> 1996]}}

ResultLists ==
    UNION {[1..n -> ResultPool] : n \in 0..MaxResults}

SummarizerInit ==
    /\ PlannerIdle
    /\ NewsIdle
    /\ g_site = "summarizer"
    /\ g_topic = "AI"
    /\ g_tasks = <<>>
    /\ g_slot = <<>>
    /\ g_order = <<>>
    /\ g_outcome = <<>>
    /\ g_results \in ResultLists
    /\ g_pc = "joined"
    /\ f_summary = <<>>
    /\ f_prompt = <<>>
    /\ f_llmCalls = 0
    /\ f_llm = <<>>
    /\ f_return = <<>>
    /\ f_stats = <<>>

SummarizerNext == \E llm \in SummaryLLMOutcomes : Summarize(llm)

(***************************************************************************)
(* travel_planner.py: MCPTravelPlanner.plan_travel.                        *)
(***************************************************************************)
\* Arguments of plan_travel: main's test case and one typed in.
PlannerDestinations == {"Beijing", "Xian"}
PlannerDuration == <<"3", "days", "2", "nights">>
PlannerPreferences == <<"history", "food">>

\* executor.invoke of a TravelAgent in its thread.
PlannerOutcomes ==
    { [kind |-> "returns", text |-> <<"advice">>, ms |-> 1234],
      [kind |-> "raises", text |-> <<"ConnectionError">>, ms |-> 7] }

PlannerErrorPrefix == <<"Error: ">>

\* TravelAgent.ainvoke: try/except Exception around executor.invoke; the
\* record has no success key.
TravelAgent_ainvoke(name, role, task, outcome, end_time) ==
    IF outcome.kind = "returns"
    THEN [agent |-> name, role |-> role, task |-> task,
          result |-> outcome.text, duration |-> outcome.ms,
          timestamp |-> end_time]
    ELSE [agent |-> name, role |-> role, task |-> task,
          result |-> PlannerErrorPrefix \o outcome.text, duration |-> 0,
          timestamp |-> end_time]

\* tasks: the four coroutines, in the order of the list.
PlannerTasks(destination) ==
    << [agent |-> "WeatherAdvisor", role |-> "weather",
        task |-> <<"weather of", destination>>],
       [agent |-> "AttractionExpert", role |-> "attractions",
        task |-> <<"five sights of", destination, ",">> \o PlannerPreferences],
       [agent |-> "FoodAdvisor", role |-> "food",
        task |-> <<"food of", destination>>],
       [agent |-> "HotelAdvisor", role |-> "hotels",
        task |-> <<"hotels of", destination>>] >>

\* The prompt of _generate_final_plan.
FinalPlanPrompt(destination, info, routes) ==
    <<"Plan for", destination>> \o PlannerDuration
        \o <<NewLine, "Weather:", NewLine>> \o info.weather_info
        \o <<NewLine, "Attractions:", NewLine>> \o info.attractions
        \o <<NewLine, "Restaurants:", NewLine>> \o info.restaurants
        \o <<NewLine, "Hotels:", NewLine>> \o info.hotels
        \o <<NewLine, "Routes:", NewLine>> \o routes
        \o <<NewLine, "Preferences:">> \o PlannerPreferences

\* self.planner_llm.invoke(prompt) in its thread.
PlannerLLMOutcomes ==
    { [kind |-> "returns", text |-> <<"guide">>, ms |-> 2345],
      [kind |-> "raises", text |-> <<"RateLimitError">>, ms |-> 7] }

PlannerInit ==
    /\ NewsIdle
    /\ g_site = "plan_travel"
    /\ g_topic \in PlannerDestinations
    /\ g_tasks = PlannerTasks(g_topic)
    /\ g_slot = [i \in 1..4 |-> Created]
    /\ g_order = <<>>
    /\ g_outcome = [i \in 1..4 |-> <<>>]
    /\ g_results = <<>>
    /\ g_pc = "fanout"
    /\ f_summary = <<>>
    /\ f_prompt = <<>>
    /\ f_llmCalls = 0
    /\ f_llm = <<>>
    /\ f_return = <<>>
    /\ f_stats = <<>>
    /\ p_info = <<>>
    /\ p_routeTask = <<>>
    /\ p_routes = <<>>
    /\ p_prompt = <<>>
    /\ p_plan = <<>>

\* A collection task of the planner finishes: ainvoke returns its record.
PlannerTaskFinish(i, outcome) ==
    /\ g_site = "plan_travel"
    /\ g_pc = "fanout"
    /\ i \in 1..Len(g_slot)
    /\ g_slot[i].st = "running"
    /\ LET t == g_tasks[i]
       IN g_slot' = [g_slot EXCEPT ![i] =
                        Done(FALSE, TravelAgent_ainvoke(t.agent, t.role, t.task,
                                                        outcome, Now + 1))]
    /\ g_order' = Append(g_order, i)
    /\ g_outcome' = [g_outcome EXCEPT ![i] = <<outcome>>]
    /\ UNCHANGED <<g_site, g_topic, g_tasks, g_results, g_pc>>
    /\ UNCHANGED <<f_vars, p_vars, n_vars>>
    /\ UNCHANGED g_others

\* await asyncio.gather(*tasks) returns (an exception among the results
\* would leave plan_travel here), and the four texts are taken by position.
PlannerJoin ==
    /\ g_site = "plan_travel"
    /\ g_pc = "fanout"
    /\ FinishedTasks = 1..Len(g_slot)
    /\ LET results == gather(g_slot, g_order)
       IN IF \E i \in 1..Len(results) : results[i].raised
          THEN /\ g_pc' = "raised"
               /\ UNCHANGED <<g_results, p_info>>
          ELSE /\ g_pc' = "joined"
               /\ g_results' = [i \in 1..Len(results) |-> results[i].result[1]]
               /\ p_info' = << [weather_info |-> results[1].result[1].result,
                                attractions  |-> results[2].result[1].result,
                                restaurants  |-> results[3].result[1].result,
                                hotels       |-> results[4].result[1].result] >>
    /\ UNCHANGED <<g_site, g_topic, g_tasks, g_slot, g_order, g_outcome>>
    /\ UNCHANGED <<p_routeTask, p_routes, p_prompt, p_plan>>
    /\ UNCHANGED <<f_vars, n_vars>>
    /\ UNCHANGED g_others

\* route_result = await self.attraction_agent.ainvoke(route_task)
PlannerRoute(outcome) ==
    /\ g_site = "plan_travel"
    /\ g_pc = "joined"
    /\ LET route_task == <<"route for">> \o PlannerDuration \o <<":", NewLine>>
                             \o p_info[1].attractions
           t == g_tasks[2]
           route_result == TravelAgent_ainvoke(t.agent, t.role, route_task,
                                               outcome, Now + 1)
       IN /\ p_routeTask' = <<route_task>>
          /\ p_routes' = <<route_result.result>>
    /\ g_pc' = "routed"
    /\ UNCHANGED <<g_site, g_topic, g_tasks, g_slot, g_order, g_outcome,
                   g_results>>
    /\ UNCHANGED <<p_info, p_prompt, p_plan>>
    /\ UNCHANGED <<f_vars, n_vars>>
    /\ UNCHANGED g_others

\* final_plan = await self._generate_final_plan(...): nothing catches an
\* exception of planner_llm.invoke, it leaves plan_travel.
PlannerFinalPlan(llm) ==
    /\ g_site = "plan_travel"
    /\ g_pc = "routed"
    /\ p_prompt' = <<FinalPlanPrompt(g_topic, p_info[1], p_routes[1])>>
    /\ IF llm.kind = "returns"
       THEN /\ p_plan' = <<llm.text>>
            /\ g_pc' = "done"
       ELSE /\ g_pc' = "raised"
            /\ UNCHANGED p_plan
    /\ UNCHANGED <<g_site, g_topic, g_tasks, g_slot, g_order, g_outcome,
                   g_results>>
    /\ UNCHANGED <<p_info, p_routeTask, p_routes>>
    /\ UNCHANGED <<f_vars, n_vars>>
    /\ UNCHANGED g_others

PlannerNext ==
    \/ \E i \in 1..4 : TaskStart(i)
    \/ \E i \in 1..4, outcome \in PlannerOutcomes : PlannerTaskFinish(i, outcome)
    \/ PlannerJoin
    \/ \E outcome \in PlannerOutcomes : PlannerRoute(outcome)
    \/ \E llm \in PlannerLLMOutcomes : PlannerFinalPlan(llm)

(***************************************************************************)
(* multi_agent_langgraph.py: text cleaning and the search tool.            *)
(***************************************************************************)
\* A character GBK cannot encode, and a character of the ranges that
\* emoji_pattern deletes.
NonGbk == "<non-gbk>"
Emoji == "<emoji>"

\* remove_emojis: the emoji are dropped.
RECURSIVE remove_emojis(_)
remove_emojis(text) ==
    IF text = <<>> THEN <<>>
    ELSE IF text[1] = Emoji THEN remove_emojis(Tail(text))
    ELSE <<text[1]>> \o remove_emojis(Tail(text))

\* safe_encode: what GBK cannot encode becomes "?", and the text is cut at
\* max_length (0 stands for None) with "..." appended.
safe_encode(text, max_length) ==
    LET safe_text == [i \in 1..Len(text) |->
                         IF text[i] \in {NonGbk, Emoji} THEN "?" ELSE text[i]]
    IN IF max_length > 0 /\ Len(safe_text) > max_length
       THEN SubSeq(safe_text, 1, max_length) \o <<"...">>
       ELSE safe_text

\* search.run(query) in its thread: the raw text found for the query
\* (hits names it), or an exception; or the tool call raising before the body
\* of search_general is entered ("invoke_raises").
SearchOutcomes ==
    { [kind |-> "returns", hits |-> <<"about">>, ms |-> 300],
      [kind |-> "returns", hits |-> <<Emoji, "on", NonGbk>>, ms |-> 300],
      [kind |-> "raises", hits |-> <<"QuotaExceeded">>, ms |-> 7],
      [kind |-> "invoke_raises", hits |-> <<"ValidationError", NonGbk>>, ms |-> 1] }

SearchErrorPrefix == <<"SearchError: ">>

\* search_general: try/except Exception around search.run; always a text.
search_general(query, outcome) ==
    IF outcome.kind = "returns"
    THEN safe_encode(remove_emojis(outcome.hits \o query), 1500)
    ELSE SearchErrorPrefix \o safe_encode(outcome.hits, 0)

(***************************************************************************)
(* multi_agent_langgraph.py: the news graph.                               *)
(***************************************************************************)
\* topics of main.
NewsTopics == {"Who", "Code"}

news_initial_state(topic) ==
    [topic          |-> topic,
     raw_news       |-> <<>>,
     fact_checked   |-> <<>>,
     edited_content |-> <<>>,
     final_report   |-> <<>>,
     messages       |-> <<>>,
     next_agent     |-> "search",
     search_results |-> <<>>]

\* search_queries, as the tasks handed to gather.
search_queries(topic) ==
    << [agent |-> "search_general", task |-> <<topic>>],
       [agent |-> "search_general", task |-> <<topic, "latest news">>],
       [agent |-> "search_general", task |-> <<topic, "2024 2025">>] >>

\* safe_results with the placeholder numbered by the index of enumerate
\* itself, i instead of i+1.
safe_results_ZeroBased(results) ==
    [i \in 1..Len(results) |->
        IF results[i].raised
        THEN <<"Search", ToString(i - 1), "failed: ">>
                 \o safe_encode(results[i].result[1], 0)
        ELSE safe_encode(results[i].result[1], 0)]

\* The loop over results: an exception becomes a placeholder naming the search.
safe_results(results) ==
    [i \in 1..Len(results) |->
        IF results[i].raised
        THEN <<"Search", ToString(i), "failed: ">>
                 \o safe_encode(results[i].result[1], 0)
        ELSE safe_encode(results[i].result[1], 0)]

\* One task of search_node, search_general.ainvoke({"query": q}), as gather
\* records it: the text search_general returned, or the exception of the call.
search_task(query, outcome) ==
    IF outcome.kind = "invoke_raises"
    THEN [st |-> "done", raised |-> TRUE, result |-> <<outcome.hits>>]
    ELSE [st |-> "done", raised |-> FALSE,
          result |-> <<search_general(query, outcome)>>]

StageFailedPrefix == <<"SearchFailed: ">>
ReportFailedPrefix == <<"ReportFailed: ">>
CheckFailedText == <<"CheckFailed">>
PublishFailedPrefix == <<"PublishFailed: ">>

\* What the body of a handler may meet: its model answers at once ("plain"),
\* its model answers with an empty text ("empty"), its model asks for tools
\* first ("tools"), or the body raises ("fail").
NewsOutcomes == {"plain", "empty", "tools", "fail"}

BodyError == <<"APIConnectionError">>

\* search_node: the value it returns once gather has returned, or from its
\* except branch.
search_node(state, results, ext) ==
    IF ext = "fail"
    THEN [state EXCEPT !.search_results =
                           << StageFailedPrefix \o safe_encode(BodyError, 0) >>,
                       !.next_agent = "reporter"]
    ELSE [state EXCEPT !.search_results = safe_results(results),
                       !.next_agent = "reporter"]

\* "\n\n".join of the numbered search results.
RECURSIVE search_info(_, _)
search_info(results, i) ==
    IF i > Len(results) THEN <<>>
    ELSE <<"=== result", ToString(i), "===", NewLine>> \o results[i]
             \o (IF i < Len(results) THEN <<NewLine, NewLine>> ELSE <<>>)
             \o search_info(results, i + 1)

HumanMessage(content) == [type |-> "human", content |-> content, tool_calls |-> 0]

\* The answer of the model with tools bound: with or without tool calls.
AIMessage(content, ext) ==
    [type |-> "ai", content |-> content,
     tool_calls |-> IF ext = "tools" THEN 1 ELSE 0]

\* Mutant of reporter_node: the except branch logs the prompt as well.
reporter_node_LogsOnFailure(state, ext) ==
    LET messages == << HumanMessage(<<"Reporter on", state.topic, ":", NewLine>>
                                        \o search_info(state.search_results, 1)) >>
        response == AIMessage(IF ext \in {"tools", "empty"} THEN <<>>
                              ELSE <<"draft on", state.topic, NonGbk>>, ext)
        final_response == AIMessage(<<"sourced draft on", state.topic>>, "plain")
        raw_news == IF response.tool_calls > 0
                    THEN safe_encode(final_response.content, 0)
                    ELSE safe_encode(response.content, 0)
    IN IF ext = "fail"
       THEN [state EXCEPT !.raw_news = ReportFailedPrefix
                                           \o safe_encode(BodyError, 0),
                          !.messages = state.messages \o messages,
                          !.next_agent = "fact_checker"]
       ELSE [state EXCEPT !.raw_news = raw_news,
                          !.messages = state.messages \o messages \o <<response>>,
                          !.next_agent = "fact_checker"]

reporter_node(state, ext) ==
    LET messages == << HumanMessage(<<"Reporter on", state.topic, ":", NewLine>>
                                        \o search_info(state.search_results, 1)) >>
        response == AIMessage(IF ext \in {"tools", "empty"} THEN <<>>
                              ELSE <<"draft on", state.topic, NonGbk>>, ext)
        final_response == AIMessage(<<"sourced draft on", state.topic>>, "plain")
        raw_news == IF response.tool_calls > 0
                    THEN safe_encode(final_response.content, 0)
                    ELSE safe_encode(response.content, 0)
    IN IF ext = "fail"
       THEN [state EXCEPT !.raw_news = ReportFailedPrefix
                                           \o safe_encode(BodyError, 0),
                          !.next_agent = "fact_checker"]
       ELSE [state EXCEPT !.raw_news = raw_news,
                          !.messages = state.messages \o messages \o <<response>>,
                          !.next_agent = "fact_checker"]

fact_checker_node(state, ext) ==
    LET response == AIMessage(IF ext \in {"tools", "empty"} THEN <<>>
                              ELSE <<"checked:">> \o state.raw_news, ext)
        final_response == AIMessage(<<"verified:">> \o state.raw_news, "plain")
        fact_checked == IF response.tool_calls > 0
                        THEN safe_encode(final_response.content, 0)
                        ELSE safe_encode(response.content, 0)
    IN IF ext = "fail"
       THEN [state EXCEPT !.fact_checked = CheckFailedText,
                          !.next_agent = "editor"]
       ELSE [state EXCEPT !.fact_checked = fact_checked,
                          !.messages = state.messages \o <<response>>,
                          !.next_agent = "editor"]

\* editor_node with an except branch that returns only next_agent, leaving
\* edited_content at the value it came in with.
editor_node_DropsDraft(state, ext) ==
    LET response == AIMessage(IF ext = "empty" THEN <<>>
                              ELSE <<"edited:">> \o state.raw_news, "plain")
    IN IF ext = "fail"
       THEN [state EXCEPT !.next_agent = "publisher"]
       ELSE [state EXCEPT !.edited_content = safe_encode(response.content, 0),
                          !.messages = state.messages \o <<response>>,
                          !.next_agent = "publisher"]

editor_node(state, ext) ==
    LET response == AIMessage(IF ext = "empty" THEN <<>>
                              ELSE <<"edited:">> \o state.raw_news, "plain")
    IN IF ext = "fail"
       THEN [state EXCEPT !.edited_content = state.raw_news,
                          !.next_agent = "publisher"]
       ELSE [state EXCEPT !.edited_content = safe_encode(response.content, 0),
                          !.messages = state.messages \o <<response>>,
                          !.next_agent = "publisher"]

publisher_node(state, ext) ==
    LET response == AIMessage(IF ext = "empty" THEN <<>>
                              ELSE <<"report on", state.topic, ":">>
                                       \o state.edited_content, "plain")
    IN IF ext = "fail"
       THEN [state EXCEPT !.final_report = PublishFailedPrefix
                                               \o safe_encode(BodyError, 0),
                          !.next_agent = "end"]
       ELSE [state EXCEPT !.final_report = safe_encode(response.content, 0),
                          !.next_agent = "end"]

\* route_next of multi_agent_langgraph.py.
news_route_next(state) ==
    LET next_agent == state.next_agent
    IN IF next_agent = "end" THEN END ELSE next_agent

\* workflow.add_node(name, handler)
NewsNodes == {"search", "reporter", "fact_checker", "editor", "publisher"}

\* Mutant of NewsEdges: the editor's edge map names a node never added.
NewsEdges_DanglingTarget ==
    [search       |-> [l \in {"reporter", END} |-> l],
     reporter     |-> [l \in {"fact_checker", END} |-> l],
     fact_checker |-> [l \in {"editor", END} |-> l],
     editor       |-> [l \in {"publisher", END} |->
                          IF l = "publisher" THEN "reviewer" ELSE l],
     publisher    |-> [l \in {END} |-> l]]

\* add_conditional_edges(node, route_next, {...}), node by node.
NewsEdges ==
    [search       |-> [l \in {"reporter", END} |-> l],
     reporter     |-> [l \in {"fact_checker", END} |-> l],
     fact_checker |-> [l \in {"editor", END} |-> l],
     editor       |-> [l \in {"publisher", END} |-> l],
     publisher    |-> [l \in {END} |-> l]]

\* set_entry_point("search")
NewsEntry == "search"

\* workflow.run(topic): the graph is started and its first node, search_node,
\* has created its three search coroutines.
NewsInit ==
    /\ PlannerIdle
    /\ g_site = "search_node"
    /\ g_topic \in NewsTopics
    /\ g_tasks = search_queries(g_topic)
    /\ g_slot = [i \in 1..3 |-> Created]
    /\ g_order = <<>>
    /\ g_outcome = [i \in 1..3 |-> <<>>]
    /\ g_results = <<>>
    /\ g_pc = "fanout"
    /\ f_summary = <<>>
    /\ f_prompt = <<>>
    /\ f_llmCalls = 0
    /\ f_llm = <<>>
    /\ f_return = <<>>
    /\ f_stats = <<>>
    /\ n_state = <<news_initial_state(g_topic)>>
    /\ n_node = NewsEntry
    /\ n_status = "running"
    /\ n_visited = <<>>
    /\ n_failed = {}
    /\ n_runs = <<>>

\* A search of search_node finishes: search_general returns its text.
SearchTaskFinish(i, outcome) ==
    /\ g_site = "search_node"
    /\ g_pc = "fanout"
    /\ i \in 1..Len(g_slot)
    /\ g_slot[i].st = "running"
    /\ g_slot' = [g_slot EXCEPT ![i] = search_task(g_tasks[i].task, outcome)]
    /\ g_order' = Append(g_order, i)
    /\ g_outcome' = [g_outcome EXCEPT ![i] = <<outcome>>]
    /\ UNCHANGED <<g_site, g_topic, g_tasks, g_results, g_pc>>
    /\ UNCHANGED <<f_vars, p_vars, n_vars>>
    /\ UNCHANGED g_others

\* The engine takes the state a handler returned: no key has a reducer, the
\* returned value replaces the state; then route_next and the edge map.
NewsRoute(node, returned, failed) ==
    LET edge == ResolveEdge(NewsEdges[node], news_route_next(returned))
    IN /\ n_state' = <<returned>>
       /\ n_visited' = Append(n_visited, node)
       /\ n_failed' = IF failed THEN n_failed \cup {node} ELSE n_failed
       /\ IF edge.mapped
          THEN /\ n_node' = edge.target
               /\ n_status' = IF edge.target = END THEN "ended" ELSE "running"
          ELSE /\ n_status' = "raised"
               /\ UNCHANGED n_node
       /\ UNCHANGED n_runs

\* The superstep on search ends: gather has returned (return_exceptions=True)
\* and search_node returns, from its body or from its except branch.
NewsSearchJoin(ext) ==
    /\ g_site = "search_node"
    /\ g_pc = "fanout"
    /\ n_status = "running"
    /\ n_node = "search"
    /\ FinishedTasks = 1..Len(g_slot)
    /\ LET results == gather(g_slot, g_order)
       IN /\ g_results' = IF ext = "fail" THEN <<>> ELSE safe_results(results)
          /\ g_pc' = IF ext = "fail" THEN "caught" ELSE "joined"
          /\ NewsRoute("search", search_node(n_state[1], results, ext),
                       ext = "fail")
    /\ UNCHANGED <<g_site, g_topic, g_tasks, g_slot, g_order, g_outcome>>
    /\ UNCHANGED <<f_vars, p_vars>>
    /\ UNCHANGED g_others

NewsHandler(node, state, ext) ==
    CASE node = "reporter"     -> reporter_node(state, ext)
      [] node = "fact_checker" -> fact_checker_node(state, ext)
      [] node = "editor"       -> editor_node(state, ext)
      [] node = "publisher"    -> publisher_node(state, ext)

\* One superstep on a node after search.
NewsStep(ext) ==
    /\ g_site = "search_node"
    /\ n_status = "running"
    /\ n_node \in NewsNodes \ {"search"}
    /\ NewsRoute(n_node, NewsHandler(n_node, n_state[1], ext), ext = "fail")
    /\ UNCHANGED <<g_vars, f_vars, p_vars>>
    /\ UNCHANGED g_others

NewsNext ==
    \/ \E i \in 1..3 : TaskStart(i)
    \/ \E i \in 1..3, outcome \in SearchOutcomes : SearchTaskFinish(i, outcome)
    \/ \E ext \in {"plain", "fail"} : NewsSearchJoin(ext)
    \/ \E ext \in NewsOutcomes : NewsStep(ext)

(***************************************************************************)
(* multi_agent_langgraph.py: main runs workflow.run for its topics         *)
(* concurrently on one AsyncNewsWorkflow.                                  *)
(***************************************************************************)
\* topics of main, in the order of the list.
MainTopics == <<"Who", "Code">>

\* tasks = [workflow.run(topic) for topic in topics]: every run has built its
\* own initial_state and entered self.app.ainvoke.
MainInit ==
    /\ PlannerIdle
    /\ FanOutIdle
    /\ NewsRunIdle
    /\ n_runs = [r \in 1..Len(MainTopics) |->
                    [topic  |-> MainTopics[r],
                     state  |-> news_initial_state(MainTopics[r]),
                     node   |-> NewsEntry,
                     status |-> "running"]]

\* Mutant of RunState: the invocations share the state of the first run.
RunState_Shared(runs, r) == runs[1].state

\* The state self.app.ainvoke hands to a handler of run r: the state of this
\* invocation (the graph is compiled without a checkpointer, and the handlers
\* keep nothing on self).
RunState(runs, r) == runs[r].state

\* The engine takes the state the handler of a run returned.
RunRoute(run, returned) ==
    LET edge == ResolveEdge(NewsEdges[run.node], news_route_next(returned))
    IN IF edge.mapped
       THEN [run EXCEPT !.state = returned,
                        !.node = edge.target,
                        !.status = IF edge.target = END THEN "ended"
                                   ELSE "running"]
       ELSE [run EXCEPT !.state = returned, !.status = "raised"]

\* Run r takes its superstep on search: its three searches meet the same
\* outcome, gather returns and search_node returns.
MainSearchStep(r, outcome, ext) ==
    /\ r \in DOMAIN n_runs
    /\ n_runs[r].status = "running"
    /\ n_runs[r].node = "search"
    /\ LET state == RunState(n_runs, r)
           queries == search_queries(state.topic)
           slots == [i \in 1..Len(queries) |->
                        search_task(queries[i].task, outcome)]
           returned == search_node(state, gather(slots, <<1, 2, 3>>), ext)
       IN n_runs' = [n_runs EXCEPT ![r] = RunRoute(n_runs[r], returned)]
    /\ UNCHANGED <<n_state, n_node, n_status, n_visited, n_failed>>
    /\ UNCHANGED <<g_vars, f_vars, p_vars>>
    /\ UNCHANGED g_others

\* Run r takes a superstep on a node after search.
MainStep(r, ext) ==
    /\ r \in DOMAIN n_runs
    /\ n_runs[r].status = "running"
    /\ n_runs[r].node \in NewsNodes \ {"search"}
    /\ LET returned == NewsHandler(n_runs[r].node, RunState(n_runs, r), ext)
       IN n_runs' = [n_runs EXCEPT ![r] = RunRoute(n_runs[r], returned)]
    /\ UNCHANGED <<n_state, n_node, n_status, n_visited, n_failed>>
    /\ UNCHANGED <<g_vars, f_vars, p_vars>>
    /\ UNCHANGED g_others

MainNext ==
    \/ \E r \in 1..Len(MainTopics), outcome \in SearchOutcomes,
          ext \in {"plain", "fail"} : MainSearchStep(r, outcome, ext)
    \/ \E r \in 1..Len(MainTopics), ext \in NewsOutcomes : MainStep(r, ext)

(***************************************************************************)
(* The three fan-out sites: one of the three programs runs.                *)
(***************************************************************************)
FanOutInit == ResearchInit \/ PlannerInit \/ NewsInit

FanOutNext == ResearchNext \/ PlannerNext \/ NewsNext

(***************************************************************************)
(* The four graph definitions, as the scripts hand them to StateGraph:     *)
(* the add_node names, the set_entry_point calls, the conditional edges    *)
(* (router and edge map per node) and the add_edge pairs.                  *)
(***************************************************************************)
ReactGraph ==
    [nodes       |-> {"agent", "tools"},
     entries     |-> <<"agent">>,
     conditional |-> [n \in {"agent"} |->
                         [router |-> "should_continue", map |-> ReactAgentEdges]],
     edges       |-> {<<"tools", ReactToolsEdge>>}]

V2Graph ==
    [nodes       |-> {"agent", "tools"},
     entries     |-> <<"agent">>,
     conditional |-> [n \in {"agent"} |->
                         [router |-> "should_continue", map |-> V2AgentEdges]],
     edges       |-> {<<"tools", V2ToolsEdge>>}]

TravelGraph ==
    [nodes       |-> TravelNodes,
     entries     |-> <<TravelEntry>>,
     conditional |-> [n \in DOMAIN TravelEdges |->
                         [router |-> "route_next", map |-> TravelEdges[n]]],
     edges       |-> {}]

NewsGraph ==
    [nodes       |-> NewsNodes,
     entries     |-> <<NewsEntry>>,
     conditional |-> [n \in DOMAIN NewsEdges |->
                         [router |-> "route_next", map |-> NewsEdges[n]]],
     edges       |-> {}]

Graphs == {ReactGraph, V2Graph, TravelGraph, NewsGraph}

(***************************************************************************)
(* Specifications: one program runs, the others stay as constructed.       *)
(***************************************************************************)
InitReact == ReactInit /\ V2Init /\ TravelIdle /\ StubIdle /\ TeamsIdle

SpecReact == InitReact /\ [][ReactNext]_vars

InitV2 == ReactInit /\ V2Init /\ TravelIdle /\ StubIdle /\ TeamsIdle

SpecV2 == InitV2 /\ [][V2Next]_vars

InitTravel == ReactInit /\ V2Init /\ TravelInit /\ StubIdle /\ TeamsIdle

SpecTravel == InitTravel /\ [][TravelNext]_vars

InitStub == ReactInit /\ V2Init /\ TravelIdle /\ StubInit /\ TeamsIdle

SpecStub == InitStub /\ [][StubNext]_vars

InitResearch == ReactInit /\ V2Init /\ TravelIdle /\ StubIdle /\ ResearchInit

SpecResearch == InitResearch /\ [][ResearchNext]_vars

InitSummarizer == ReactInit /\ V2Init /\ TravelIdle /\ StubIdle /\ SummarizerInit

SpecSummarizer == InitSummarizer /\ [][SummarizerNext]_vars

InitPlanner == ReactInit /\ V2Init /\ TravelIdle /\ StubIdle /\ PlannerInit

SpecPlanner == InitPlanner /\ [][PlannerNext]_vars

InitNews == ReactInit /\ V2Init /\ TravelIdle /\ StubIdle /\ NewsInit

SpecNews == InitNews /\ [][NewsNext]_vars

InitMain == ReactInit /\ V2Init /\ TravelIdle /\ StubIdle /\ MainInit

SpecMain == InitMain /\ [][MainNext]_vars

\* Either the ReactAgent.py loop runs or the news graph does.
LogsInit == TeamsIdle \/ NewsInit

LogsNext == (g_site = "none" /\ ReactNext) \/ NewsNext

InitLogs == ReactInit /\ V2Init /\ TravelIdle /\ StubIdle /\ LogsInit

SpecLogs == InitLogs /\ [][LogsNext]_vars

InitFanOut == ReactInit /\ V2Init /\ TravelIdle /\ StubIdle /\ FanOutInit

SpecFanOut == InitFanOut /\ [][FanOutNext]_vars

(***************************************************************************)
(* ReactAgent.py: properties.                                              *)
(***************************************************************************)
IsTool(m) == m.role = "tool"
ToolMessages == SelectSeq(r_state.messages, IsTool)

\* The run was stopped by the iteration cap: no reply carried the marker.
ForcedStop ==
    /\ r_status = "ended"
    /\ r_state.iterations >= IterationCap
    /\ \A i \in 1..Len(r_replies) : ~ContainsText(r_replies[i], FinalMarker)

\* C1: every run of the ReactAgent.py graph ends: it invokes agent_node at
\* most 5 times and tool_node at most 4 times, every superstep is counted,
\* a run that has not ended stands at a node whose superstep can be taken,
\* and every step adds one to a superstep count that never exceeds 9.
ReactStepsBounded ==
    /\ r_agentCalls <= IterationCap
    /\ r_toolCalls <= IterationCap - 1
    /\ r_steps = r_agentCalls + r_toolCalls
    /\ r_status \in {"running", "ended", "crashed"}
    /\ r_status = "running" => r_node \in {"agent", "tools"}

ReactRunBounded ==
    /\ []ReactStepsBounded
    /\ [][r_steps' = r_steps + 1 /\ r_steps' <= 2 * IterationCap - 1]_vars

ReactCapReached ==
    /\ r_status = "ended"
    /\ r_agentCalls = IterationCap
    /\ r_toolCalls = IterationCap - 1

\* What a final state carries besides the texts of its message log.
Indication(state) == [k \in DOMAIN state \ {"messages"} |-> state[k]]

\* The final state the same run reaches when its last reply is a genuine
\* final answer: the last agent step redone on that reply.
GenuineTwin ==
    LET before == [r_state EXCEPT
                     !.messages = SubSeq(r_state.messages, 1,
                                         Len(r_state.messages) - 1),
                     !.iterations = r_state.iterations - 1]
    IN ReActMerge(before, agent_node(before, FinalMarker \o <<": ", "14">>))

\* C2: the final state of a run stopped by the cap carries an indication of
\* the forced stop: outside the message texts it differs from the final
\* state the same run has when its last reply is a genuine final answer.
ForcedStopIndicated ==
    ForcedStop => Indication(r_state) # Indication(GenuineTwin)

\* C3: when the run is stopped by the cap, the last entry of the message
\* log is the last assistant reply, with the content llm.invoke returned.
ForcedStopKeepsLastReply ==
    ForcedStop =>
        Last(r_state.messages) =
            [role |-> "assistant", content |-> Last(r_replies)]

ForcedStopAfterAction ==
    /\ ForcedStop
    /\ ContainsText(Last(r_replies), ActCalculator)

\* The i-th call of tool_node called a tool function that raised.
ToolFailed(i) ==
    /\ r_invoked[i].tool = "Calculator"
    /\ calculator_tool(r_invoked[i].input).raised

\* C4: a tool invocation that fails never ends the run: its observation is
\* in the log and the run did not stop in the tools node.
ToolFailureObserved ==
    /\ \A i \in 1..Len(r_invoked) : ToolFailed(i) => Len(ToolMessages) >= i
    /\ ~(r_status = "crashed" /\ r_node = "tools")

\* The tool a reply names: the rest of the line of its first "Action: ".
NamedTool(reply) ==
    IF ContainsText(reply, <<ActPrefix>>)
    THEN LET i == CHOOSE i \in Occurrences(reply, <<ActPrefix>>) :
                      \A j \in Occurrences(reply, <<ActPrefix>>) : i <= j
             rest == SubSeq(reply, i + 1, Len(reply))
         IN SplitFirst(rest, NewLine)
    ELSE <<>>

\* The reply names a tool other than Search and Calculator, or none.
NamesNoTool(reply) == NamedTool(reply) \notin {<<"Search">>, <<"Calculator">>}

\* C5: the Acting step for a reply that names a tool other than Search and
\* Calculator, or no tool, calls no tool function, appends exactly one
\* observation reporting the unrecognised tool, and hands over to the next
\* Thinking step (the run is then either waiting for that step or that step
\* has been taken).
UnknownToolObserved ==
    \A i \in 1..r_toolCalls :
        NamesNoTool(r_replies[i]) =>
            /\ r_invoked[i].tool = NoTool
            /\ Len(r_state.messages) >= 2 * i + 1
            /\ r_state.messages[2 * i + 1] =
                   [role |-> "tool", content |-> <<"Observation:">> \o Unrecognised]
            /\ Len(ToolMessages) >= i
            /\ Len(r_state.messages) = 2 * i + 1 =>
                   /\ r_node = "agent"
                   /\ r_status = "running" \/ r_agentCalls = i + 1
            /\ Len(r_state.messages) > 2 * i + 1 =>
                   r_state.messages[2 * i + 2].role = "assistant"

\* C6: a reply with the final-answer marker ends the run at once: it is the
\* last reply, no tool_node call and no agent_node call follows it.
FinalAnswerFinishes ==
    \A i \in 1..Len(r_replies) :
        ContainsText(r_replies[i], FinalMarker) =>
            /\ i = Len(r_replies)
            /\ r_status = "ended"
            /\ r_node = END
            /\ r_agentCalls = i
            /\ r_toolCalls = i - 1
            /\ Last(r_state.messages).content = r_replies[i]

FinalAnswerWithAction ==
    /\ r_replies # <<>>
    /\ ContainsText(Last(r_replies), FinalMarker)
    /\ ContainsText(Last(r_replies), ActCalculator)
    /\ r_state.iterations < IterationCap

ScenarioBExpression == <<"2", "**", "2", "+", "10">>

\* The first reply requests Calculator with 2**2+10, the second is final.
ScenarioBReplies ==
    /\ Len(r_replies) = 2
    /\ ~ContainsText(r_replies[1], FinalMarker)
    /\ ~ContainsText(r_replies[1], ActSearch)
    /\ ContainsText(r_replies[1], ActCalculator)
    /\ Strip(SplitLast(r_replies[1], ActInput)) = ScenarioBExpression
    /\ ContainsText(r_replies[2], FinalMarker)

\* C8: Scenario B takes exactly 2 Thinking steps and 1 Acting step, and the
\* single observation in the log carries the value 14.
ScenarioB ==
    ScenarioBReplies =>
        /\ r_status = "ended"
        /\ r_agentCalls = 2
        /\ r_toolCalls = 1
        /\ r_invoked = << [tool |-> "Calculator", input |-> ScenarioBExpression] >>
        /\ ToolMessages =
               << [role |-> "tool", content |-> <<"Observation:", "14">>] >>

ScenarioBDone ==
    /\ ScenarioBReplies
    /\ r_status = "ended"

(***************************************************************************)
(* ReactAgentV2.py: properties.                                            *)
(***************************************************************************)
\* Agent supersteps that fit into the engine's recursion limit.
V2AgentBound == (RecursionLimit + 1) \div 2

IsAi(m) == m.type = "ai"
V2AiMessages == SelectSeq(v_state.messages, IsAi)

V2StepsBounded ==
    /\ v_agentCalls <= V2AgentBound
    /\ v_steps = v_agentCalls + v_toolCalls
    /\ v_steps <= RecursionLimit
    /\ v_status \in {"running", "ended", "step_limit", "crashed"}
    /\ v_status = "running" => v_node \in {"agent", "tools"}
    /\ v_status = "ended" => Last(v_state.messages).tool_calls = <<>>
    /\ v_status = "step_limit" => v_steps = RecursionLimit
    /\ v_status = "crashed" => Len(V2AiMessages) < v_agentCalls

\* C7: every run of the ReactAgentV2.py loop is bounded: it takes at most 13
\* agent steps, each step adds one to the superstep count or stops the run,
\* and a run whose model calls all return ends by finishing (a reply with
\* no tool call) or by being stopped at the step limit.
V2RunBounded ==
    /\ []V2StepsBounded
    /\ [][v_steps' = v_steps + 1 \/ v_status' = "step_limit"]_vars

V2StoppedAtLimit ==
    /\ v_status = "step_limit"
    /\ v_agentCalls = V2AgentBound
    /\ \A i \in 2..Len(v_state.messages) :
           v_state.messages[i].type = "ai" => v_state.messages[i].tool_calls # <<>>

(***************************************************************************)
(* mcp_travel_langgraph.py: properties.                                    *)
(***************************************************************************)
\* C9: whenever a node has run and route_next has returned a label, the
\* label is a key of that node's conditional edge map.
RouterLabelsMapped ==
    t_label # "" => t_label \in DOMAIN TravelEdges[t_from]

\* C10: once a router has returned a label without an entry in its node's
\* edge map, the run is stopped with KeyError for that label: no handler is
\* invoked after it, and main reports the error, never a final plan.
UnroutableStopsRun ==
    t_unroutable > 0 =>
        /\ t_status = "raised"
        /\ t_error = "KeyError"
        /\ Len(t_visited) = t_unroutable
        /\ t_report \in {"none", "error"}

UnroutableReported ==
    /\ t_unroutable > 0
    /\ t_label \notin DOMAIN TravelEdges[t_from]
    /\ t_report = "error"

\* C13: a failure inside a node handler of the travel-planning graph does
\* not abort the run: no run is stopped by an exception of a handler.
HandlerFailureTolerated ==
    ~(t_status = "raised" /\ t_error = "handler")

(***************************************************************************)
(* mcp_travel_langgraph.py under stub handlers: properties.                *)
(***************************************************************************)
\* The stub handlers of Scenario A: collect returns current_step = "weather",
\* weather returns current_step = "end".
ScenarioAPatches == a_patch = [collect |-> "weather", weather |-> "end"]

\* C11: a run of the graph collect -> weather -> end under the handlers of
\* Scenario A that has stopped has visited exactly collect and then weather
\* and has reached END.
ScenarioA ==
    (ScenarioAPatches /\ a_status # "running") =>
        /\ a_visited = <<"collect", "weather">>
        /\ a_status = "ended"
        /\ a_node = END

(***************************************************************************)
(* multi_agent_async.py: properties of the fan-out of ResearchTeam.        *)
(***************************************************************************)
\* The blocking call of the finished task i raised.
TaskRaised(i) == g_outcome[i] # <<>> /\ g_outcome[i][1].kind = "raises"

\* The blocking call of the finished task i returned.
TaskReturned(i) == g_outcome[i] # <<>> /\ g_outcome[i][1].kind = "returns"

\* What task i returned to gather.
TaskRecord(i) == g_slot[i].result[1]

FailuresRecorded ==
    /\ g_pc # "raised"
    /\ \A i \in FinishedTasks :
           /\ ~g_slot[i].raised
           /\ TaskRecord(i).agent = g_tasks[i].agent
           /\ TaskRecord(i).task = g_tasks[i].task
           /\ TaskRaised(i) =>
                  /\ ~TaskRecord(i).success
                  /\ TaskRecord(i).result =
                         TaskFailedPrefix \o g_outcome[i][1].text
           /\ TaskReturned(i) =>
                  /\ TaskRecord(i).success
                  /\ TaskRecord(i).result = g_outcome[i][1].text
    /\ g_pc \in {"joined", "done"} =>
           /\ FinishedTasks = 1..Len(g_tasks)
           /\ Len(g_results) = Len(g_tasks)
           /\ \A i \in 1..Len(g_tasks) : g_results[i] = TaskRecord(i)

\* C15: in ResearchTeam.research a task whose call raised is recorded as a
\* result with success = false and the error description as payload, no
\* exception leaves the fan-out, and the siblings are not cancelled: a step
\* in which one task finishes changes no other task, every task runs to a
\* result of its own, and the collected list holds each result unchanged.
FailureIsolated ==
    /\ []FailuresRecorded
    /\ [][\A i, j \in 1..Len(g_slot) :
             (i # j /\ g_slot[i].st # "done" /\ g_slot'[i].st = "done")
                 => g_slot'[j] = g_slot[j]]_vars

OneTaskFailed ==
    /\ g_site = "research"
    /\ g_pc = "done"
    /\ g_order = <<3, 1, 2>>
    /\ TaskRaised(3)
    /\ TaskReturned(1)
    /\ TaskReturned(2)

\* The blocking call of the finished task i took longer than the timeout.
TimedOut(i) ==
    g_outcome[i] # <<>> /\ g_outcome[i][1].ms > MaxExecutionTime * 1000

\* C16: a task of the research fan-out that exceeds the timeout of 60 s is
\* recorded as a failed result whose payload gives the timeout as reason;
\* with three tasks of which only the second times out the collected list
\* is success, failure, success.
TimeoutRecorded ==
    g_pc \in {"joined", "done"} =>
        \A i \in 1..Len(g_results) :
            /\ TimedOut(i) =>
                   /\ ~g_results[i].success
                   /\ ContainsText(g_results[i].result, StoppedText)
            /\ (TaskReturned(i) /\ ~TimedOut(i)) => g_results[i].success

\* C17: when a worker limit below the number of submitted tasks is
\* configured, the number of tasks executing at the same time stays within
\* it: some limit smaller than the number of tasks is never exceeded.
WorkerLimitRespected ==
    g_site = "research" =>
        \E limit \in 1..(Len(g_tasks) - 1) :
            Cardinality(RunningTasks) <= limit

(***************************************************************************)
(* multi_agent_async.py: properties of SummarizerAgent.ainvoke.            *)
(***************************************************************************)
SuccessfulResults == SelectSeq(g_results, IsSuccessful)

\* The texts parts occur in text one after the other, from position from on.
RECURSIVE InOrder(_, _, _)
InOrder(text, parts, from) ==
    IF parts = <<>> THEN TRUE
    ELSE LET at == {i \in Occurrences(text, parts[1]) : i >= from}
         IN /\ at # {}
            /\ LET first == CHOOSE i \in at : \A j \in at : i <= j
               IN InOrder(text, Tail(parts), first + Len(parts[1]))

\* Label, task, payload and duration of every result of the list, in order.
RECURSIVE Provenance(_)
Provenance(results) ==
    IF results = <<>> THEN <<>>
    ELSE << <<results[1].agent>>, results[1].task, results[1].result,
            Format2f(results[1].duration) >> \o Provenance(Tail(results))

\* C18: a call of SummarizerAgent.ainvoke on a result list without a
\* successful result, the empty list included, returns the all-failed
\* record (success = false) and does not call the llm.
AllFailedSkipsSynthesis ==
    (g_pc = "done" /\ SuccessfulResults = <<>>) =>
        /\ f_llmCalls = 0
        /\ f_llm = <<>>
        /\ f_prompt = <<>>
        /\ Len(f_summary) = 1
        /\ ~f_summary[1].success
        /\ f_summary[1].result = AllFailedText

AllFailedSummarized ==
    /\ g_site = "summarizer"
    /\ g_pc = "done"
    /\ Len(g_results) >= 2
    /\ SuccessfulResults = <<>>

\* C19: when a result succeeded, the prompt handed to the llm holds agent,
\* task, payload and duration (to two decimals) of every successful result,
\* result after result in the order of the list, and the payload of no
\* failed result.
PromptCarriesSuccesses ==
    (g_pc = "done" /\ SuccessfulResults # <<>>) =>
        /\ Len(f_prompt) = 1
        /\ InOrder(f_prompt[1], Provenance(SuccessfulResults), 1)
        /\ \A i \in 1..Len(g_results) :
               ~IsSuccessful(g_results[i]) =>
                   ~ContainsText(f_prompt[1], g_results[i].result)

MixedResultsSummarized ==
    /\ g_site = "summarizer"
    /\ g_pc = "done"
    /\ Len(g_results) = 3
    /\ IsSuccessful(g_results[1])
    /\ ~IsSuccessful(g_results[2])
    /\ IsSuccessful(g_results[3])
    /\ g_results[1].agent # g_results[3].agent

\* C20: SummarizerAgent.ainvoke calls the llm at most once; when that call
\* raises, the call is not repeated and ainvoke returns a record with
\* success = false and the error description as result.
SynthesisAtMostOnce ==
    /\ f_llmCalls <= 1
    /\ Len(f_llm) = f_llmCalls
    /\ g_pc # "raised"
    /\ (g_pc = "done" /\ f_llm # <<>> /\ f_llm[1].kind = "raises") =>
           /\ Len(f_summary) = 1
           /\ ~f_summary[1].success
           /\ f_summary[1].result = SummaryFailedPrefix \o f_llm[1].text
           /\ f_return = f_summary

SynthesisFailed ==
    /\ g_site = "summarizer"
    /\ g_pc = "done"
    /\ f_llm # <<>>
    /\ f_llm[1].kind = "raises"


\* The value gather handed back for task i, as the site keeps it.
Collected(i) ==
    IF g_site # "search_node" THEN TaskRecord(i)
    ELSE IF g_slot[i].raised
         THEN <<"Search", ToString(i), "failed: ">> \o safe_encode(TaskRecord(i), 0)
         ELSE safe_encode(TaskRecord(i), 0)

JoinedSites == {"research", "plan_travel", "search_node"}

\* C14: at each of the three fan-out sites, once the site has collected its
\* results there are as many results as tasks and result i is what task i
\* returned (its record names the agent and the task of position i, its
\* search text names query i), whatever the order of completion was.
ResultsInTaskOrder ==
    (g_site \in JoinedSites /\ g_pc \in {"joined", "routed", "done"}) =>
        /\ Len(g_results) = Len(g_tasks)
        /\ \A i \in 1..Len(g_tasks) :
               /\ g_results[i] = Collected(i)
               /\ g_site # "search_node" =>
                      /\ g_results[i].agent = g_tasks[i].agent
                      /\ g_results[i].task = g_tasks[i].task
               /\ (g_site = "search_node" /\ TaskReturned(i)) =>
                      ContainsText(g_results[i], g_tasks[i].task)

\* The four collection tasks of plan_travel finished last-first-... and the
\* results were collected.
CollectedOutOfOrder ==
    /\ g_site = "plan_travel"
    /\ g_pc = "joined"
    /\ g_order = <<4, 2, 1, 3>>
    /\ Len(g_results) = 4

NewsOrder == <<"search", "reporter", "fact_checker", "editor", "publisher">>

\* The five nodes are visited in the order of NewsOrder and the run ends
\* after the fifth.
NewsInOrder ==
    /\ n_status # "raised"
    /\ Len(n_visited) <= Len(NewsOrder)
    /\ n_visited = SubSeq(NewsOrder, 1, Len(n_visited))
    /\ n_status = "running" =>
           /\ Len(n_visited) < Len(NewsOrder)
           /\ n_node = NewsOrder[Len(n_visited) + 1]
    /\ n_status = "ended" => n_visited = NewsOrder

NewsErrorPrefixes ==
    {StageFailedPrefix, ReportFailedPrefix, CheckFailedText, PublishFailedPrefix}

IsErrorText(text) ==
    \E prefix \in NewsErrorPrefixes :
        /\ Len(text) >= Len(prefix)
        /\ SubSeq(text, 1, Len(prefix)) = prefix

\* The output field of a node holds an error text.
HoldsErrorText(node) ==
    LET state == n_state[1]
    IN CASE node = "search" ->
                /\ Len(state.search_results) = 1
                /\ IsErrorText(state.search_results[1])
         [] node = "reporter"     -> IsErrorText(state.raw_news)
         [] node = "fact_checker" -> IsErrorText(state.fact_checked)
         [] node = "editor"       -> IsErrorText(state.edited_content)
         [] node = "publisher"    -> IsErrorText(state.final_report)

\* C12: a run of the news workflow visits search, reporter, fact_checker,
\* editor, publisher in this order and then ends, whichever handler bodies
\* failed, and every handler whose body failed has left an error text in its
\* own output field.
NewsFailuresRecordedInOrder ==
    g_site = "search_node" =>
        /\ NewsInOrder
        /\ \A node \in n_failed : HoldsErrorText(node)

\* The run of Scenario C: the two search tasks returned and the call of the
\* analyst raised.
OnlyAnalystFailed ==
    /\ g_site = "research"
    /\ g_pc = "done"
    /\ TaskReturned(1)
    /\ TaskReturned(2)
    /\ TaskRaised(3)

\* C21: in a run of research in which only the call of the analyst raised,
\* the summarizer hands the llm one prompt, made of the blocks of the two
\* search records and without the analyst's failure text, and the statistics
\* line reports 2 successes out of 3 tasks.
ScenarioC ==
    OnlyAnalystFailed =>
        /\ f_llmCalls = 1
        /\ f_prompt = << <<"Merge into a report:", NewLine>>
                             \o SummaryBlock(TaskRecord(1))
                             \o <<NewLine, NewLine>>
                             \o SummaryBlock(TaskRecord(2))
                             \o <<NewLine, "Requirements">> >>
        /\ ~ContainsText(f_prompt[1], TaskRecord(3).result)
        /\ f_stats = << [succeeded |-> 2, total |-> 3] >>

\* Scenario C has run, with a transport error of the analyst.
ScenarioCRun ==
    /\ OnlyAnalystFailed
    /\ g_outcome[3][1].text = <<"ConnectionError">>
    /\ f_stats # <<>>

\* The text is handed to a model in the route task or in the final prompt.
HandedToSynthesis(text) ==
    \/ p_routeTask # <<>> /\ ContainsText(p_routeTask[1], text)
    \/ p_prompt # <<>> /\ ContainsText(p_prompt[1], text)

\* C22: in plan_travel the result of a collection agent whose call raised is
\* in neither the route task nor the final prompt, and when the calls of all
\* four collection agents raised neither a route task nor a final prompt is
\* made.
FailedCollectionFiltered ==
    g_site = "plan_travel" =>
        /\ \A i \in FinishedTasks :
               TaskRaised(i) => ~HandedToSynthesis(TaskRecord(i).result)
        /\ (FinishedTasks = 1..4 /\ \A i \in 1..4 : TaskRaised(i)) =>
               /\ p_routeTask = <<>>
               /\ p_prompt = <<>>

\* The tokens of a text, and of all the texts a news state holds.
TokensOf(text) == {text[i] : i \in 1..Len(text)}

StateTokens(state) ==
    TokensOf(state.raw_news) \cup TokensOf(state.fact_checked)
        \cup TokensOf(state.edited_content) \cup TokensOf(state.final_report)
        \cup UNION {TokensOf(state.search_results[i]) :
                        i \in 1..Len(state.search_results)}
        \cup UNION {TokensOf(state.messages[i].content) :
                        i \in 1..Len(state.messages)}

\* The state of run r has the topic the run was started with and names no
\* other topic in any of its texts.
OwnsItsTopic(r) ==
    /\ n_runs[r].state.topic = MainTopics[r]
    /\ StateTokens(n_runs[r].state) \cap TokensOf(MainTopics) \subseteq
           {MainTopics[r]}

\* C23: the runs main starts on one AsyncNewsWorkflow keep their states
\* apart: under every interleaving of their node steps the state of each run
\* has the topic it was started with and only content made from that topic,
\* and a node step of one run changes the state of no other run.
RunsIsolated ==
    /\ [](\A r \in DOMAIN n_runs : OwnsItsTopic(r))
    /\ [][\A r \in DOMAIN n_runs :
              n_runs'[r] # n_runs[r] =>
                  \A q \in DOMAIN n_runs \ {r} : n_runs'[q] = n_runs[q]]_vars

\* Both runs have ended, each with a report on its own topic.
BothRunsEnded ==
    /\ Len(n_runs) = 2
    /\ \A r \in DOMAIN n_runs :
           /\ n_runs[r].status = "ended"
           /\ MainTopics[r] \in TokensOf(n_runs[r].state.final_report)

\* The two runs are under way at the same time, at different nodes.
RunsInterleaved ==
    /\ Len(n_runs) = 2
    /\ n_runs[1].status = "running" /\ n_runs[1].node = "editor"
    /\ n_runs[2].status = "running" /\ n_runs[2].node = "reporter"
    /\ n_runs[1].state.raw_news # <<>>
    /\ n_runs[2].state.search_results # <<>>

IsPrefixOf(s, t) == Len(s) <= Len(t) /\ SubSeq(t, 1, Len(s)) = s

\* C24: the message log only grows at its end: over every node step of the
\* ReactAgent.py loop and of the news graph, the log of the state before the
\* step is a prefix of the log of the state after it.
LogAppendOnly ==
    [][/\ IsPrefixOf(r_state.messages, r_state'.messages)
       /\ n_state # <<>> =>
              IsPrefixOf(n_state[1].messages, n_state'[1].messages)]_vars

\* A run of the news graph has ended with the entries of the reporter, the
\* fact checker and the editor in its log.
NewsLogGrown ==
    /\ g_site = "search_node"
    /\ n_status = "ended"
    /\ Len(n_state[1].messages) = 4

AssistantMessages ==
    {i \in 1..Len(r_state.messages) : r_state.messages[i].role = "assistant"}

\* C25: in the ReactAgent.py loop, iterations is the number of agent steps
\* that returned so far (every invocation of agent_node, unless the last one
\* raised) and the number of assistant messages in the log, in every state;
\* a tools step leaves iterations as it is.
IterationsCountThinking ==
    /\ [](/\ r_state.iterations = Len(r_replies)
          /\ r_state.iterations = Cardinality(AssistantMessages)
          /\ r_status # "crashed" => r_state.iterations = r_agentCalls)
    /\ [][r_toolCalls' # r_toolCalls =>
              r_state'.iterations = r_state.iterations]_vars

\* Three agent steps and two tools steps have been taken.
ThreeThinkingSteps ==
    /\ r_state.iterations = 3
    /\ r_toolCalls = 2
    /\ Cardinality(AssistantMessages) = 3

\* C26: a calculator tool never raises: every call of calculator_tool that
\* tool_node of ReactAgent.py made, malformed expression or not, returned a
\* result to its caller.
CalculatorNeverRaises ==
    \A i \in 1..Len(r_invoked) :
        r_invoked[i].tool = "Calculator" =>
            ~calculator_tool(r_invoked[i].input).raised

\* The targets a graph definition names, in its edge maps and fixed edges.
EdgeTargets(g) ==
    UNION {{g.conditional[n].map[l] : l \in DOMAIN g.conditional[n].map} :
               n \in DOMAIN g.conditional}
        \cup {e[2] : e \in g.edges}

\* One entry node, which is registered; edges leave registered nodes and lead
\* to registered nodes or END; every conditional edge has its router.
GraphWellFormed(g) ==
    /\ Len(g.entries) = 1
    /\ g.entries[1] \in g.nodes
    /\ DOMAIN g.conditional \subseteq g.nodes
    /\ \A e \in g.edges : e[1] \in g.nodes
    /\ EdgeTargets(g) \subseteq g.nodes \cup {END}
    /\ \A n \in DOMAIN g.conditional : g.conditional[n].router # ""

\* C27: each of the four graph definitions has exactly one entry node, names
\* only registered nodes or END as edge targets and gives every node with
\* conditional edges a router; so the node a run of the ReactAgent.py loop or
\* of the news graph is at is always a registered node or END.
GraphsWellFormed ==
    /\ \A g \in Graphs : GraphWellFormed(g)
    /\ r_node \in ReactGraph.nodes \cup {END}
    /\ n_node \in NewsGraph.nodes \cup {END}

\* The news graph has routed a run over its edge maps up to its last node.
RoutedToPublisher ==
    /\ g_site = "search_node"
    /\ n_status = "running"
    /\ n_node = "publisher"
    /\ Len(n_visited) = 4

\* C29: the summarizer leaves the result records alone: the step in which
\* SummarizerAgent.ainvoke runs changes neither the task records nor the
\* collected list, and the search_results research returns is, element for
\* element, the list of the records the three tasks returned, whether the
\* summary succeeded or not.
ResultsReadOnly ==
    /\ []((g_site = "research" /\ g_pc = "done") =>
              /\ Len(f_return[1].search_results) = Len(g_tasks)
              /\ \A i \in 1..Len(g_tasks) :
                     f_return[1].search_results[i] = TaskRecord(i))
    /\ [][f_summary' # f_summary =>
              /\ g_results' = g_results
              /\ g_slot' = g_slot]_vars

\* research has returned after a failed summary, with a failed record among
\* its search_results.
ReturnedAfterFailedSummary ==
    /\ g_site = "research"
    /\ g_pc = "done"
    /\ ~f_return[1].success
    /\ f_llmCalls = 1
    /\ ~IsSuccessful(f_return[1].search_results[2])
    /\ IsSuccessful(f_return[1].search_results[1])

AllTasksFinished == FinishedTasks = 1..Len(g_slot)

\* C30: the join comes before what follows the fan-out: the step in which
\* research invokes the summarizer is taken when all three tasks have
\* produced their result; in plan_travel the step that starts the route task
\* is taken when all four collection tasks have finished, and the step that
\* starts the final-plan synthesis when the route task has finished.
JoinBeforeSynthesis ==
    [][/\ f_summary' # f_summary => AllTasksFinished /\ Len(g_results) = 3
       /\ p_routeTask' # p_routeTask => AllTasksFinished /\ Len(g_results) = 4
       /\ p_prompt' # p_prompt => p_routes # <<>>]_vars

\* plan_travel has generated its plan after the collection tasks finished in
\* an order of their own.
PlanGenerated ==
    /\ g_site = "plan_travel"
    /\ g_pc = "done"
    /\ p_plan # <<>>
    /\ g_order = <<3, 1, 4, 2>>

TravelOrder == <<"collect", "weather", "attractions", "restaurants", "hotels",
                 "schedule", "budget", "generate", "review">>

\* C31: a run of the travel-planning graph in which no handler raised visits
\* the nine nodes in the order of TravelOrder, once each, and then ends:
\* what it has visited is always an initial part of that order, and it stops
\* only by reaching END after review.
NineNodesInOrder ==
    t_error # "handler" =>
        /\ Len(t_visited) <= Len(TravelOrder)
        /\ t_visited = SubSeq(TravelOrder, 1, Len(t_visited))
        /\ t_status # "running" =>
               /\ t_status = "ended"
               /\ t_visited = TravelOrder

\* C32: in the ReactAgent.py loop the reply of the agent step that brings
\* iterations to 5 is never acted on: the run has ended at once, with that
\* reply as its last message; so tool_node runs at most 4 times, the log
\* holds at most 4 observations, and after every observation comes an
\* assistant message or, while it is the last message, the agent node (which
\* runs next, or whose model call raised).
CapReplyNotExecuted ==
    /\ r_state.iterations >= IterationCap =>
           /\ r_status = "ended"
           /\ r_node = END
           /\ Last(r_state.messages).role = "assistant"
    /\ Len(ToolMessages) <= IterationCap - 1
    /\ Len(r_invoked) <= IterationCap - 1
    /\ \A i \in 1..Len(r_state.messages) :
           r_state.messages[i].role = "tool" =>
               IF i < Len(r_state.messages)
               THEN r_state.messages[i + 1].role = "assistant"
               ELSE r_node = "agent" /\ r_status \in {"running", "crashed"}

\* The run was ended by the cap on a reply that asks for a search, after four
\* observations.
CapReplyAskedForSearch ==
    /\ r_status = "ended"
    /\ r_state.iterations = IterationCap
    /\ ContainsText(Last(r_replies), ActSearch)
    /\ ~ContainsText(Last(r_replies), FinalMarker)
    /\ Len(ToolMessages) = IterationCap - 1

\* C33: in every state of the ReactAgent.py loop the log is the user message
\* followed by assistant, tool, assistant, ... in strict alternation, so a
\* tool message always comes right after an assistant message; and the last
\* message of a run that reached END is an assistant message.
MessagesAlternate ==
    /\ r_state.messages[1].role = "user"
    /\ \A i \in 2..Len(r_state.messages) :
           r_state.messages[i].role =
               IF i % 2 = 0 THEN "assistant" ELSE "tool"
    /\ r_status = "ended" => Last(r_state.messages).role = "assistant"

\* A run has ended after two observations.
EndedAfterTwoObservations ==
    /\ r_status = "ended"
    /\ Len(r_state.messages) = 6
    /\ Len(ToolMessages) = 2

\* The i-th Acting step acted on a reply with both directives by calling
\* Search alone, on what follows the last "Action Input:".
SearchTakesPrecedence(i) ==
    (ContainsText(r_replies[i], ActSearch)
         /\ ContainsText(r_replies[i], ActCalculator)) =>
        r_invoked[i] = [tool  |-> "Search",
                        input |-> Strip(SplitLast(r_replies[i], ActInput))]

\* C34: every Acting step of the ReactAgent.py loop has called at most one
\* tool function and appended exactly one observation, and an Acting step on
\* a reply with both an "Action: Search" and an "Action: Calculator"
\* directive called Search alone, on the text after the last "Action Input:".
OneToolOneObservation ==
    /\ Len(r_invoked) = r_toolCalls
    /\ Len(ToolMessages) = r_toolCalls
    /\ \A i \in 1..Len(r_invoked) : SearchTakesPrecedence(i)

\* The positions of the assistant replies in the log of ReactAgentV2.py.
V2ReplyPositions ==
    {i \in 1..Len(v_state.messages) : v_state.messages[i].type = "ai"}

\* A reply without tool calls is the last message, of a run that has ended.
PlainReplyEndsRun ==
    \A i \in V2ReplyPositions :
        v_state.messages[i].tool_calls = <<>> =>
            /\ i = Len(v_state.messages)
            /\ v_status = "ended"
            /\ v_node = END

\* A reply with tool calls that is not the last message is followed by the
\* messages of one tools step (one per call) and then, unless they are the
\* last messages, by the next reply.
ToolRoundFollows(i) ==
    LET n == Len(v_state.messages[i].tool_calls)
    IN /\ i + n <= Len(v_state.messages)
       /\ \A j \in (i + 1)..(i + n) : v_state.messages[j].type = "tool"
       /\ i + n < Len(v_state.messages) =>
              v_state.messages[i + n + 1].type = "ai"

\* The log ends with the messages of a tools step: the agent node is next.
AgentStepNext ==
    Last(v_state.messages).type = "tool" =>
        /\ v_node = "agent"
        /\ v_status \in {"running", "crashed"}

\* Exactly as C35 was stated: after a reply with tool calls a tools step
\* always comes.
V2EndsAtFirstPlainReply ==
    /\ PlainReplyEndsRun
    /\ v_status = "ended" => IsAi(Last(v_state.messages))
    /\ AgentStepNext
    /\ \A i \in V2ReplyPositions :
           v_state.messages[i].tool_calls # <<>> =>
               IF i < Len(v_state.messages) THEN ToolRoundFollows(i)
               ELSE v_node = "tools" /\ v_status = "running"

\* C35: in the ReactAgentV2.py loop a run ends at END exactly at the first
\* reply without tool calls, which is then its last message; every reply
\* with tool calls is followed by a tools step and then another agent step,
\* except the reply of the superstep that uses up the engine's recursion
\* limit, after which the run is stopped with GraphRecursionError.
V2EndsAtFirstPlainReplyOrLimit ==
    /\ PlainReplyEndsRun
    /\ v_status = "ended" => IsAi(Last(v_state.messages))
    /\ AgentStepNext
    /\ \A i \in V2ReplyPositions :
           v_state.messages[i].tool_calls # <<>> =>
               IF i < Len(v_state.messages) THEN ToolRoundFollows(i)
               ELSE /\ v_node = "tools"
                    /\ \/ v_status = "running"
                       \/ v_status = "step_limit" /\ v_steps = RecursionLimit

\* A run has ended on a reply without tool calls after two tool rounds.
V2EndedAfterToolRounds ==
    /\ v_status = "ended"
    /\ v_toolCalls = 2
    /\ Last(v_state.messages).tool_calls = <<>>

\* The field a node of the news graph writes its result to.
OutputField(node) ==
    CASE node = "search"       -> "search_results"
      [] node = "reporter"     -> "raw_news"
      [] node = "fact_checker" -> "fact_checked"
      [] node = "editor"       -> "edited_content"
      [] node = "publisher"    -> "final_report"

\* C36: over every node step of the news graph the topic stays as it is, and
\* a step whose handler body failed changes no field of the state other than
\* the node's own output field and next_agent: the message log and the
\* output fields of the other stages are as before.
FailureTouchesOwnFieldOnly ==
    [][(n_state # <<>> /\ n_visited' # n_visited) =>
           /\ n_state'[1].topic = n_state[1].topic
           /\ n_failed' # n_failed =>
                  \A field \in DOMAIN n_state[1] \
                                   {OutputField(n_node), "next_agent"} :
                      n_state'[1][field] = n_state[1][field]]_vars

\* The reporter failed after a collected search, and the fact checker has
\* run on its failure text.
ReporterFailedAfterSearch ==
    /\ g_site = "search_node"
    /\ g_pc = "joined"
    /\ n_failed = {"reporter"}
    /\ n_node = "editor"
    /\ Len(n_state[1].search_results) = 3

\* C37 as stated: once editor_node has run, a failed editor has left
\* edited_content equal to raw_news, and edited_content is never empty while
\* raw_news holds a draft.
EditedNeverEmptyWithDraft ==
    (n_state # <<>> /\ \E i \in DOMAIN n_visited : n_visited[i] = "editor") =>
        /\ "editor" \in n_failed => n_state[1].edited_content = n_state[1].raw_news
        /\ n_state[1].raw_news # <<>> => n_state[1].edited_content # <<>>

\* C37: the step of editor_node keeps raw_news and hands the state to the
\* publisher; when it fails edited_content becomes exactly raw_news, when it
\* succeeds edited_content becomes the safe-encoded text of the reply it
\* appended to messages; so edited_content is empty while a draft exists only
\* after a successful editor whose reply was empty.
EditorPassesOutputOrDraft ==
    [][(n_state # <<>> /\ n_node = "editor" /\ n_visited' # n_visited) =>
           LET s == n_state[1]
               t == n_state'[1]
           IN /\ t.raw_news = s.raw_news
              /\ n_node' = "publisher"
              /\ IF n_failed' # n_failed
                 THEN /\ t.edited_content = s.raw_news
                      /\ t.messages = s.messages
                 ELSE /\ Len(t.messages) = Len(s.messages) + 1
                      /\ t.edited_content
                             = safe_encode(t.messages[Len(t.messages)].content, 0)
              /\ (s.raw_news # <<>> /\ t.edited_content = <<>>) =>
                     /\ n_failed' = n_failed
                     /\ t.messages[Len(t.messages)].content = <<>>]_vars

PublisherGotUneditedDraft ==
    /\ n_state # <<>>
    /\ n_node = "publisher"
    /\ "editor" \in n_failed
    /\ "reporter" \notin n_failed
    /\ n_state[1].raw_news # <<>>
    /\ n_state[1].edited_content = n_state[1].raw_news

SearchVisited == n_state # <<>> /\ n_visited # <<>> /\ n_visited[1] = "search"

\* The prefix of text that is as long as prefix.
StartsWith(text, prefix) ==
    Len(text) >= Len(prefix) /\ SubSeq(text, 1, Len(prefix)) = prefix

\* C38: once search_node has returned, search_results is not empty: after the
\* three searches were collected it has three entries in the order of the
\* queries, entry i being the text search i returned or a placeholder that
\* names search i and carries its exception; after the except branch of the
\* stage it has one entry, the failure text; and the state search_node
\* returned has next_agent "reporter".
SearchResultsShape ==
    SearchVisited =>
        LET search_results == n_state[1].search_results
        IN /\ search_results # <<>>
           /\ g_pc \in {"joined", "caught"}
           /\ g_pc = "joined" =>
                  /\ Len(search_results) = 3
                  /\ \A i \in 1..3 :
                         IF g_outcome[i][1].kind = "invoke_raises"
                         THEN search_results[i]
                                  = <<"Search", ToString(i), "failed: ">>
                                      \o safe_encode(g_outcome[i][1].hits, 0)
                         ELSE search_results[i]
                                  = search_general(search_queries(n_state[1].topic)[i].task,
                                                   g_outcome[i][1])
           /\ g_pc = "caught" =>
                  /\ Len(search_results) = 1
                  /\ StartsWith(search_results[1], StageFailedPrefix)
                  /\ "search" \in n_failed
           /\ n_visited = <<"search">> =>
                  /\ n_state[1].next_agent = "reporter"
                  /\ n_node = "reporter"

CollectedTextAndPlaceholder ==
    /\ SearchVisited
    /\ g_pc = "joined"
    /\ g_outcome[1][1].kind = "returns"
    /\ g_outcome[2][1].kind = "invoke_raises"
    /\ g_outcome[3][1].kind = "raises"
    /\ n_state[1].search_results[2][2] = "2"

====
